---- MODULE Spec2Model ----
(***************************************************************************)
(* SkyWatch policy engine: PolicyEngine.evaluate, the rule registry, the   *)
(* static policy repository, the normalization guard and the finding       *)
(* factory, as a state machine.  One evaluate call is a sequence of steps  *)
(* (Begin, Lookup, Supports, Invoke, Emit, Finalize); the callers "c1" and  *)
(* "c2" call evaluate on the same engine and snapshot, one after the other *)
(* (Spec), or each on its own snapshot with their steps interleaved        *)
(* (SpecConcurrent).                                                       *)
(***************************************************************************)
EXTENDS Integers, Sequences, FiniteSets, TLC

VARIABLES snapshot, repository, registry, now, calls, registrations, last_get, snapshot_of

vars == <<snapshot, repository, registry, now, calls, registrations, last_get, snapshot_of>>

-----------------------------------------------------------------------------
(* Bounds of the model *)

\* Longest tuple of rule configs a repository holds.
MaxConfigs == 2

\* Last instant of the clock (the clock starts at 1).
MaxClock == 2

-----------------------------------------------------------------------------
(* types.py: enumerations and the literals of the engine *)

\* Python's None, for the string-valued optional fields.
None == "None"

\* A datetime that is None (captured_at); instants of the clock are >= 1.
NoTime == 0

Severity == {"CRITICAL", "HIGH", "MEDIUM", "LOW"}

S3_BUCKET == "S3_BUCKET"

OPEN == "OPEN"

SUPPRESSED == "SUPPRESSED"

UNKNOWN_RULE == "UNKNOWN_RULE"

INVALID_SCHEMA == "INVALID_SCHEMA"

SKIPPED_MISSING_DATA == "SKIPPED_MISSING_DATA"

RULE_EXCEPTION == "RULE_EXCEPTION"

FINDING_ID_NAMESPACE == "3d014e3a-8a03-4dd8-9f5d-6b7b5a03b0d2"

\* The rule id of the snapshot-level validation error.
VALIDATION_RULE_ID == "__validation__"

\* The paths PolicyEngine.evaluate hands to NormalizationGuard.require; a
\* path is the sequence of its dot-separated parts (path.split(".")).
REQUIRED_PATHS == << <<"account_id">>, <<"resource_id">>, <<"resource_type">> >>

-----------------------------------------------------------------------------
(* errors.py: the exceptions, as records [type, msg] *)

UnknownRuleError(rule_id) ==
    [type |-> "UnknownRuleError", msg |-> "Unknown rule_id: " \o rule_id]

RuleSkippedMissingData(rule_id, missing_paths) ==
    [type |-> "RuleSkippedMissingData",
     msg  |-> "Rule " \o rule_id \o " skipped: missing required data: " \o missing_paths]

RuleInvalidSchema(rule_id, message) ==
    [type |-> "RuleInvalidSchema",
     msg  |-> "Rule " \o rule_id \o " invalid schema: " \o message]

\* Any other exception a rule raises (a subclass of Exception).
OtherException(type, message) == [type |-> type, msg |-> message]

NoException == [type |-> "", msg |-> ""]

-----------------------------------------------------------------------------
(* interfaces.py: FindingSpec and the PolicyRule protocol *)

FindingSpec(finding_key, title, severity) ==
    [finding_key |-> finding_key,
     title       |-> title,
     description |-> "description of " \o finding_key,
     evidence    |-> [summary |-> "evidence of " \o finding_key,
                      observations |-> << [path |-> "metadata." \o finding_key,
                                           value |-> FALSE] >>],
     remediation |-> [summary |-> "fix " \o finding_key, steps |-> <<>>,
                      references |-> <<>>],
     severity    |-> severity]

\* An implementation of the PolicyRule protocol.  has_supports: whether the
\* object has a supports attribute; supports: what the predicate does
\* ("true", "false", "raise", or "s3_bucket": true for S3_BUCKET alone);
\* outcome: what evaluate does ("return", "raise", or "compute": what the
\* built-in rule of that id computes from the snapshot's metadata); specs:
\* the FindingSpecs the returned iterable yields; iter_fail:
\* the position at which consuming the iterable raises (0: it never does);
\* exc: the exception evaluate raises.
PolicyRule(rule_id, default_severity, has_supports, supports, outcome, specs, iter_fail, exc) ==
    [rule_id          |-> rule_id,
     rule_version     |-> "1.0.0",
     default_severity |-> default_severity,
     has_supports     |-> has_supports,
     supports         |-> supports,
     outcome          |-> outcome,
     specs            |-> specs,
     iter_fail        |-> iter_fail,
     exc              |-> exc]

\* The rules registered in the engine's registry: one per behaviour the
\* protocol allows.
Rules ==
    { PolicyRule("R_OK", "HIGH", TRUE, "true", "return",
                 << FindingSpec("k1", "first", None),
                    FindingSpec("k2", "second", "CRITICAL") >>, 0, NoException),
      PolicyRule("R_PLAIN", "MEDIUM", FALSE, "true", "return",
                 << FindingSpec("k1", "plain", None) >>, 0, NoException),
      PolicyRule("R_UNSUPPORTED", "LOW", TRUE, "false", "return",
                 << FindingSpec("k1", "never", None) >>, 0, NoException),
      PolicyRule("R_SUPPORTS_RAISES", "LOW", TRUE, "raise", "return",
                 <<>>, 0, OtherException("ValueError", "supports failed")),
      PolicyRule("R_MISSING", "LOW", TRUE, "true", "raise", <<>>, 0,
                 RuleSkippedMissingData("R_MISSING", "['metadata.acl_grants']")),
      PolicyRule("R_INVALID", "LOW", TRUE, "true", "raise", <<>>, 0,
                 RuleInvalidSchema("R_INVALID", "metadata.acl_grants must be a list")),
      PolicyRule("R_RAISES", "LOW", TRUE, "true", "raise", <<>>, 0,
                 OtherException("ValueError", "boom")),
      PolicyRule("R_LAZY", "LOW", TRUE, "true", "return",
                 << FindingSpec("k1", "lazy", "MEDIUM") >>, 2,
                 OtherException("ValueError", "late")) }

-----------------------------------------------------------------------------
(* The values of a snapshot's metadata.  A value is null, a boolean, a     *)
(* string, a list or an object (a Mapping); a mapping is a function from   *)
(* its keys.  A string the rules inspect character by character carries    *)
(* the sequence of its characters; one they only compare carries its text. *)

Null == [kind |-> "null"]

Bool(b) == [kind |-> "bool", val |-> b]

Str(s) == [kind |-> "str", val |-> s]

List(items) == [kind |-> "list", items |-> items]

Obj(fields) == [kind |-> "object", fields |-> fields]

\* The mapping with no key.
EmptyMap == <<>>

\* isinstance(v, Mapping)
IsMapping(v) == v.kind = "object"

\* isinstance(v, list)
IsList(v) == v.kind = "list"

\* mapping.get(key): the value under the key, None when the key is absent.
Get(mapping, key) == IF key \in DOMAIN mapping THEN mapping[key] ELSE Null

\* mapping.get(key, default)
GetOr(mapping, key, default) == IF key \in DOMAIN mapping THEN mapping[key] ELSE default

\* v is True
IsTrue(v) == v.kind = "bool" /\ v.val = TRUE

\* v is False
IsFalse(v) == v.kind = "bool" /\ v.val = FALSE

\* The letters, lower case and upper case.
Letters ==
    << <<"a", "A">>, <<"b", "B">>, <<"c", "C">>, <<"d", "D">>, <<"e", "E">>,
       <<"f", "F">>, <<"g", "G">>, <<"h", "H">>, <<"i", "I">>, <<"j", "J">>,
       <<"k", "K">>, <<"l", "L">>, <<"m", "M">>, <<"n", "N">>, <<"o", "O">>,
       <<"p", "P">>, <<"q", "Q">>, <<"r", "R">>, <<"s", "S">>, <<"t", "T">>,
       <<"u", "U">>, <<"v", "V">>, <<"w", "W">>, <<"x", "X">>, <<"y", "Y">>,
       <<"z", "Z">> >>

\* str.upper(), on the characters of the string
Upper(chars) ==
    [i \in 1..Len(chars) |->
        IF \E k \in 1..Len(Letters) : Letters[k][1] = chars[i]
        THEN Letters[CHOOSE k \in 1..Len(Letters) : Letters[k][1] = chars[i]][2]
        ELSE chars[i]]

\* str.lower()
Lower(chars) ==
    [i \in 1..Len(chars) |->
        IF \E k \in 1..Len(Letters) : Letters[k][2] = chars[i]
        THEN Letters[CHOOSE k \in 1..Len(Letters) : Letters[k][2] = chars[i]][1]
        ELSE chars[i]]

\* sub in chars
Contains(sub, chars) ==
    \E i \in 0..(Len(chars) - Len(sub)) : SubSeq(chars, i + 1, i + Len(sub)) = sub

\* chars.startswith(prefix)
StartsWith(chars, prefix) ==
    Len(prefix) <= Len(chars) /\ SubSeq(chars, 1, Len(prefix)) = prefix

\* str.strip(): without the blanks at its two ends
RECURSIVE Strip(_)
Strip(chars) ==
    IF chars = <<>> THEN <<>>
    ELSE IF Head(chars) = " " THEN Strip(Tail(chars))
    ELSE IF chars[Len(chars)] = " " THEN Strip(SubSeq(chars, 1, Len(chars) - 1))
    ELSE chars

\* str(v), for a string, None and the booleans
PyStr(v) ==
    IF v.kind = "str" THEN v.val
    ELSE IF v.kind = "null" THEN <<"N", "o", "n", "e">>
    ELSE IF IsTrue(v) THEN <<"T", "r", "u", "e">>
    ELSE <<"F", "a", "l", "s", "e">>

-----------------------------------------------------------------------------
(* rules/common.py *)

AWS_ALL_USERS_URI == "http://acs.amazonaws.com/groups/global/AllUsers"

AWS_AUTH_USERS_URI == "http://acs.amazonaws.com/groups/global/AuthenticatedUsers"

\* is_public_grantee_uri knowing the AllUsers group alone.
IsPublicGranteeUri_AllUsersOnly(uri) ==
    uri.kind = "str" /\ uri.val = AWS_ALL_USERS_URI

\* is_public_grantee_uri: uri in (AWS_ALL_USERS_URI, AWS_AUTH_USERS_URI)
IsPublicGranteeUri(uri) ==
    uri.kind = "str" /\ uri.val \in {AWS_ALL_USERS_URI, AWS_AUTH_USERS_URI}

\* normalize_to_list
NormalizeToList(v) ==
    IF v.kind = "null" THEN <<>>
    ELSE IF IsList(v) THEN v.items
    ELSE <<v>>

\* What a rule's evaluate does: it returns the specs, or raises exc.
Returns(specs) == [outcome |-> "return", specs |-> specs, iter_fail |-> 0, exc |-> NoException]

Raises(exc) == [outcome |-> "raise", specs |-> <<>>, iter_fail |-> 0, exc |-> exc]

\* A FindingSpec of a built-in rule: its key, title, severity and evidence.
BuiltinSpec(finding_key, title, severity, observations) ==
    [FindingSpec(finding_key, title, severity) EXCEPT !.evidence.observations = observations]

-----------------------------------------------------------------------------
(* rules/encryption.py: EncryptionEnabledRule *)

EncryptionEnabledRule ==
    PolicyRule("S3_ENCRYPTION_DISABLED", "HIGH", TRUE, "s3_bucket", "compute", <<>>, 0, NoException)

\* EncryptionEnabledRule.evaluate taking a missing indicator for a secure one:
\* a finding only when enabled is False.
EncryptionEvaluate_MissingIsSecure(metadata) ==
    LET encryption == Get(metadata, "encryption")
        enabled    == IF IsMapping(encryption) THEN Get(encryption.fields, "enabled") ELSE Null
    IN  IF ~IsFalse(enabled) THEN Returns(<<>>)
        ELSE Returns(<< BuiltinSpec("encryption_disabled",
                           "S3 bucket encryption at rest is not enabled", None,
                           << [path |-> "metadata.encryption.enabled", value |-> enabled] >>) >>)

\* EncryptionEnabledRule.evaluate
EncryptionEvaluate(metadata) ==
    LET encryption == Get(metadata, "encryption")
        enabled    == IF IsMapping(encryption) THEN Get(encryption.fields, "enabled") ELSE Null
        obs        == IF IsMapping(encryption) /\ "enabled" \in DOMAIN encryption.fields
                      THEN << [path |-> "metadata.encryption.enabled", value |-> enabled] >>
                      ELSE << [path |-> "metadata.encryption", value |-> encryption] >>
    IN  IF IsTrue(enabled) THEN Returns(<<>>)
        ELSE Returns(<< BuiltinSpec("encryption_disabled",
                           "S3 bucket encryption at rest is not enabled", None, obs) >>)

-----------------------------------------------------------------------------
(* rules/public_acl.py: PublicAclRule *)

PublicAclRule ==
    PolicyRule("S3_PUBLIC_ACL", "HIGH", TRUE, "s3_bucket", "compute", <<>>, 0, NoException)

\* The permission test of a grant: "READ" in perm or "FULL_CONTROL" in perm
\* or "WRITE" in perm, perm being str(g.get("permission", "")).upper().
GrantsAccess(g) ==
    LET perm == Upper(PyStr(GetOr(g.fields, "permission", Str(<<>>))))
    IN  \/ Contains(<<"R", "E", "A", "D">>, perm)
        \/ Contains(<<"F", "U", "L", "L", "_", "C", "O", "N", "T", "R", "O", "L">>, perm)
        \/ Contains(<<"W", "R", "I", "T", "E">>, perm)

\* The grants the loop of PublicAclRule.evaluate keeps.
Offending(grants) ==
    SelectSeq(grants, LAMBDA g : /\ IsMapping(g)
                                 /\ IsPublicGranteeUri(Get(g.fields, "grantee_uri"))
                                 /\ GrantsAccess(g))

\* PublicAclRule.evaluate emitting one spec per offending grant.
PublicAclEvaluate_PerGrant(metadata) ==
    LET grants == Get(metadata, "acl_grants")
    IN  IF grants.kind = "null"
        THEN Raises(RuleSkippedMissingData("S3_PUBLIC_ACL", "['metadata.acl_grants']"))
        ELSE IF ~IsList(grants)
        THEN Raises(RuleInvalidSchema("S3_PUBLIC_ACL", "metadata.acl_grants must be a list"))
        ELSE Returns([k \in 1..Len(Offending(grants.items)) |->
                         BuiltinSpec("public_acl", "S3 bucket is publicly accessible via ACL", None,
                             << [path |-> "metadata.acl_grants", value |-> Offending(grants.items)[k]] >>)])

\* PublicAclRule.evaluate
PublicAclEvaluate(metadata) ==
    LET grants == Get(metadata, "acl_grants")
    IN  IF grants.kind = "null"
        THEN Raises(RuleSkippedMissingData("S3_PUBLIC_ACL", "['metadata.acl_grants']"))
        ELSE IF ~IsList(grants)
        THEN Raises(RuleInvalidSchema("S3_PUBLIC_ACL", "metadata.acl_grants must be a list"))
        ELSE IF Offending(grants.items) = <<>> THEN Returns(<<>>)
        ELSE Returns(<< BuiltinSpec("public_acl", "S3 bucket is publicly accessible via ACL", None,
                           << [path |-> "metadata.acl_grants", value |-> Offending(grants.items)] >>) >>)

-----------------------------------------------------------------------------
(* rules/public_policy.py: PublicPolicyRule *)

PublicPolicyRule ==
    PolicyRule("S3_PUBLIC_POLICY", "HIGH", TRUE, "s3_bucket", "compute", <<>>, 0, NoException)

\* _is_wildcard_principal
IsWildcardPrincipal(principal) ==
    \/ principal.kind = "str" /\ Strip(principal.val) = <<"*">>
    \/ /\ IsMapping(principal)
       /\ Get(principal.fields, "AWS").kind = "str"
       /\ Get(principal.fields, "AWS").val = <<"*">>

\* any(isinstance(a, str) and a.lower().startswith("s3:") for a in actions)
HasS3Action(actions) ==
    \E i \in 1..Len(actions) :
        actions[i].kind = "str" /\ StartsWith(Lower(actions[i].val), <<"s", "3", ":">>)

\* The loop of PublicPolicyRule.evaluate without the test of the effect.
PublicStatements_AnyEffect(statements) ==
    SelectSeq(statements, LAMBDA st :
        /\ IsMapping(st)
        /\ IsWildcardPrincipal(Get(st.fields, "principal"))
        /\ HasS3Action(NormalizeToList(Get(st.fields, "action"))))

\* The statements the loop of PublicPolicyRule.evaluate keeps.
PublicStatements(statements) ==
    SelectSeq(statements, LAMBDA st :
        /\ IsMapping(st)
        /\ Lower(PyStr(GetOr(st.fields, "effect", Str(<<>>)))) = <<"a", "l", "l", "o", "w">>
        /\ IsWildcardPrincipal(Get(st.fields, "principal"))
        /\ HasS3Action(NormalizeToList(Get(st.fields, "action"))))

\* PublicPolicyRule.evaluate
PublicPolicyEvaluate(metadata) ==
    LET policy     == Get(metadata, "bucket_policy")
        statements == Get(policy.fields, "statements")
        pab        == Get(metadata, "public_access_block")
        restrict_public_buckets ==
            IF IsMapping(pab) THEN Get(pab.fields, "restrict_public_buckets") ELSE Null
        severity   == IF IsFalse(restrict_public_buckets) THEN "CRITICAL" ELSE None
    IN  IF policy.kind = "null"
        THEN Raises(RuleSkippedMissingData("S3_PUBLIC_POLICY", "['metadata.bucket_policy']"))
        ELSE IF ~IsMapping(policy)
        THEN Raises(RuleInvalidSchema("S3_PUBLIC_POLICY", "metadata.bucket_policy must be an object"))
        ELSE IF statements.kind = "null"
        THEN Raises(RuleSkippedMissingData("S3_PUBLIC_POLICY", "['metadata.bucket_policy.statements']"))
        ELSE IF ~IsList(statements)
        THEN Raises(RuleInvalidSchema("S3_PUBLIC_POLICY", "metadata.bucket_policy.statements must be a list"))
        ELSE IF PublicStatements(statements.items) = <<>> THEN Returns(<<>>)
        ELSE Returns(<< BuiltinSpec("public_policy", "S3 bucket policy allows public access", severity,
                           << [path |-> "metadata.bucket_policy.statements",
                               value |-> PublicStatements(statements.items)],
                              [path |-> "metadata.public_access_block.restrict_public_buckets",
                               value |-> restrict_public_buckets] >>) >>)

-----------------------------------------------------------------------------
(* rules/secure_transport.py: SecureTransportRule *)

SecureTransportRule ==
    PolicyRule("S3_TLS_NOT_ENFORCED", "MEDIUM", TRUE, "s3_bucket", "compute", <<>>, 0, NoException)

\* SecureTransportRule.evaluate
SecureTransportEvaluate(metadata) ==
    LET transport    == Get(metadata, "transport")
        requires_tls == IF IsMapping(transport) THEN Get(transport.fields, "requires_tls") ELSE Null
    IN  IF IsTrue(requires_tls) THEN Returns(<<>>)
        ELSE Returns(<< BuiltinSpec("tls_not_enforced",
                           "S3 bucket policy does not enforce TLS-only access", None,
                           << [path |-> "metadata.transport.requires_tls", value |-> requires_tls] >>) >>)

BuiltinRules == {EncryptionEnabledRule, PublicAclRule, PublicPolicyRule, SecureTransportRule}

\* evaluate of the built-in rule with the given id
BuiltinEvaluate(rule_id, metadata) ==
    IF rule_id = "S3_ENCRYPTION_DISABLED" THEN EncryptionEvaluate(metadata)
    ELSE IF rule_id = "S3_PUBLIC_ACL" THEN PublicAclEvaluate(metadata)
    ELSE IF rule_id = "S3_PUBLIC_POLICY" THEN PublicPolicyEvaluate(metadata)
    ELSE SecureTransportEvaluate(metadata)

\* rule.evaluate(snapshot, params=cfg.params): a pure function of its inputs.
RuleEvaluate(rule, snap, params) ==
    IF rule.outcome = "compute" THEN BuiltinEvaluate(rule.rule_id, snap.metadata)
    ELSE [outcome |-> rule.outcome, specs |-> rule.specs,
          iter_fail |-> rule.iter_fail, exc |-> rule.exc]

\* rule.supports(resource_type)
RuleSupports(rule, resource_type) ==
    IF rule.supports = "s3_bucket"
    THEN IF resource_type = S3_BUCKET THEN "true" ELSE "false"
    ELSE rule.supports

-----------------------------------------------------------------------------
(* registry.py: RuleRegistry *)

\* register under a key made of the rule's id and version.
Register_VersionedKey(rules, rule) ==
    [id \in (DOMAIN rules) \cup {rule.rule_id \o "@" \o rule.rule_version} |->
        IF id = rule.rule_id \o "@" \o rule.rule_version THEN rule ELSE rules[id]]

\* register keeping the entry already present under the id (setdefault).
Register_KeepFirst(rules, rule) ==
    [id \in (DOMAIN rules) \cup {rule.rule_id} |->
        IF id \in DOMAIN rules THEN rules[id] ELSE rule]

\* RuleRegistry.register: self._rules[rule.rule_id] = rule
Register(rules, rule) ==
    [id \in (DOMAIN rules) \cup {rule.rule_id} |->
        IF id = rule.rule_id THEN rule ELSE rules[id]]

\* RuleRegistry.get: the rule, or UnknownRuleError raised.
RegistryGet(rules, rule_id) ==
    IF rule_id \in DOMAIN rules
    THEN [ok |-> TRUE, rule |-> rules[rule_id], exc |-> NoException]
    ELSE [ok |-> FALSE,
          rule |-> PolicyRule(rule_id, "LOW", FALSE, "true", "return", <<>>, 0,
                              NoException),
          exc |-> UnknownRuleError(rule_id)]

\* A registry built by registering every rule of Rules in an empty registry.
RECURSIVE RegisterAll(_, _)
RegisterAll(rules, S) ==
    IF S = {} THEN rules
    ELSE LET r == CHOOSE x \in S : TRUE
         IN RegisterAll(Register(rules, r), S \ {r})

EmptyRegistry == [id \in {} |-> NoException]

\* The order in which RegisterAll registers the rules of S.
RECURSIVE RegistrationOrder(_)
RegistrationOrder(S) ==
    IF S = {} THEN <<>>
    ELSE LET r == CHOOSE x \in S : TRUE
         IN <<r>> \o RegistrationOrder(S \ {r})

\* No call of get has been made yet.
NoLookup == [rule_id |-> "", at |-> 0, ok |-> FALSE, rule |-> NoException, exc |-> NoException]

-----------------------------------------------------------------------------
(* types.py: RuleConfig; repository.py: StaticPolicyRepository *)

RuleConfig(rule_id, enabled, severity_override, suppressed) ==
    [rule_id           |-> rule_id,
     enabled           |-> enabled,
     severity_override |-> severity_override,
     params            |-> None,
     suppressed        |-> suppressed]

\* get_enabled_rules without the filter: every config, enabled or not.
GetEnabledRules_All(rules, resource_type, account_id) == rules

\* StaticPolicyRepository.get_enabled_rules: [r for r in self.rules if r.enabled]
GetEnabledRules(rules, resource_type, account_id) ==
    SelectSeq(rules, LAMBDA r : r.enabled)

-----------------------------------------------------------------------------
(* guard.py: NormalizationGuard *)

\* _has_path asking for a non-empty value under the key.
HasPath_NonEmpty(is_mapping, obj, parts) ==
    IF parts = <<>> THEN TRUE
    ELSE /\ is_mapping
         /\ Head(parts) \in DOMAIN obj
         /\ obj[Head(parts)] # ""
         /\ Tail(parts) = <<>>

\* _has_path: walk the parts of the path through nested mappings.  A mapping
\* is a function whose domain is its key set; the values read here are the
\* snapshot's top-level fields, which are not mappings.
RECURSIVE HasPath(_, _, _)
HasPath(is_mapping, obj, parts) ==
    IF parts = <<>> THEN TRUE
    ELSE IF is_mapping /\ Head(parts) \in DOMAIN obj
         THEN HasPath(FALSE, obj[Head(parts)], Tail(parts))
         ELSE FALSE

\* NormalizationGuard.require: the paths that are missing, in order.
GuardRequire(snapshot_dict, paths) ==
    SelectSeq(paths, LAMBDA p : ~HasPath(TRUE, snapshot_dict, p))

\* The shallow view of the snapshot evaluate validates (engine.py, snapshot_dict).
SnapshotDict(snap) ==
    [k \in {"account_id", "resource_id", "resource_type"} |-> snap[k]]

-----------------------------------------------------------------------------
(* finding_factory.py: FindingFactory *)

\* A time-based identifier (uuid1) in place of the name-based one.
Uuid1(namespace, name) == <<"uuid1", namespace, now>>

\* uuid.uuid5(namespace, name): the name-based identifier, as the term it is
\* the digest of (two identifiers are equal when namespace and name are).
Uuid5(namespace, name) == <<"uuid5", namespace, name>>

\* _stable_finding_id
StableFindingId(snapshot_id, rule_id, finding_key) ==
    Uuid5(FINDING_ID_NAMESPACE, snapshot_id \o "|" \o rule_id \o "|" \o finding_key)

\* FindingFactory.create stamping the finding with the clock (utc_now()).
CreateFinding_DetectedNow(snap, ctx, rule_id, rule_version, severity, status, spec) ==
    [finding_id   |-> StableFindingId(snap.snapshot_id, rule_id, spec.finding_key),
     account_id   |-> snap.account_id,
     resource_type |-> snap.resource_type,
     resource_id  |-> snap.resource_id,
     rule_id      |-> rule_id,
     rule_version |-> rule_version,
     severity     |-> severity,
     status       |-> status,
     title        |-> spec.title,
     description  |-> spec.description,
     evidence     |-> spec.evidence,
     remediation  |-> spec.remediation,
     detected_at  |-> now]

\* FindingFactory.create with the severity hashed into the identifier.
CreateFinding_SeverityInId(snap, ctx, rule_id, rule_version, severity, status, spec) ==
    [finding_id   |-> StableFindingId(snap.snapshot_id, rule_id, spec.finding_key \o "|" \o severity),
     account_id   |-> snap.account_id,
     resource_type |-> snap.resource_type,
     resource_id  |-> snap.resource_id,
     rule_id      |-> rule_id,
     rule_version |-> rule_version,
     severity     |-> severity,
     status       |-> status,
     title        |-> spec.title,
     description  |-> spec.description,
     evidence     |-> spec.evidence,
     remediation  |-> spec.remediation,
     detected_at  |-> ctx.evaluated_at]

\* FindingFactory.create
CreateFinding(snap, ctx, rule_id, rule_version, severity, status, spec) ==
    [finding_id   |-> StableFindingId(snap.snapshot_id, rule_id, spec.finding_key),
     account_id   |-> snap.account_id,
     resource_type |-> snap.resource_type,
     resource_id  |-> snap.resource_id,
     rule_id      |-> rule_id,
     rule_version |-> rule_version,
     severity     |-> severity,
     status       |-> status,
     title        |-> spec.title,
     description  |-> spec.description,
     evidence     |-> spec.evidence,
     remediation  |-> spec.remediation,
     detected_at  |-> ctx.evaluated_at]

-----------------------------------------------------------------------------
(* engine.py: _resolve_severity *)

\* _resolve_severity with the spec's severity ahead of the override.
ResolveSeverity_SpecFirst(rule, cfg, spec_severity) ==
    IF spec_severity # None THEN spec_severity
    ELSE IF cfg.severity_override # None THEN cfg.severity_override
    ELSE rule.default_severity

ResolveSeverity(rule, cfg, spec_severity) ==
    IF cfg.severity_override # None THEN cfg.severity_override
    ELSE IF spec_severity # None THEN spec_severity
    ELSE rule.default_severity

-----------------------------------------------------------------------------
(* types.py: EvaluationError, EvaluationResult; context.py: EvaluationContext *)

EvaluationError(rule_id, error_code, message, snapshot_id, occurred_at) ==
    [rule_id     |-> rule_id,
     error_code  |-> error_code,
     message     |-> message,
     snapshot_id |-> snapshot_id,
     occurred_at |-> occurred_at]

EvaluationResult(findings, rules_evaluated, rules_failed, duration_ms, errors) ==
    [findings |-> findings,
     stats    |-> [rules_evaluated |-> rules_evaluated,
                   rules_failed    |-> rules_failed,
                   duration_ms     |-> duration_ms],
     errors   |-> errors]

\* The context with evaluated_at = utc_now(), whatever the snapshot carries.
EvaluationContext_Now(snap, t) ==
    [correlation_id |-> snap.snapshot_id,
     evaluated_at   |-> t,
     account_id     |-> snap.account_id,
     provider       |-> snap.provider,
     resource_type  |-> snap.resource_type,
     resource_id    |-> snap.resource_id]

\* ctx of evaluate: evaluated_at = snapshot.captured_at or utc_now()
EvaluationContext(snap, t) ==
    [correlation_id |-> snap.snapshot_id,
     evaluated_at   |-> IF snap.captured_at # NoTime THEN snap.captured_at ELSE t,
     account_id     |-> snap.account_id,
     provider       |-> snap.provider,
     resource_type  |-> snap.resource_type,
     resource_id    |-> snap.resource_id]

\* ", ".join(paths), each path the "."-join of its parts
RECURSIVE Join(_, _)
Join(strs, sep) ==
    IF strs = <<>> THEN ""
    ELSE IF Len(strs) = 1 THEN Head(strs)
    ELSE Head(strs) \o sep \o Join(Tail(strs), sep)

JoinPaths(paths) == Join([i \in 1..Len(paths) |-> Join(paths[i], ".")], ", ")

-----------------------------------------------------------------------------
(* engine.py: PolicyEngine.evaluate, step by step.  A call is the record   *)
(* of evaluate's local variables; pc is the place of the call:             *)
(*   "idle"     not yet called                                              *)
(*   "lookup"   at the top of the loop over rule_configs                    *)
(*   "supports" the rule is looked up, its supports predicate is next      *)
(*   "invoke"   rule.evaluate is next                                       *)
(*   "emit"     consuming the specs rule.evaluate returned                  *)
(*   "done"     evaluate returned `result`                                  *)
(*   "raised"   evaluate raised `raised`                                    *)

NoRule == PolicyRule("", "LOW", FALSE, "true", "return", <<>>, 0, NoException)

NoContext == [correlation_id |-> "", evaluated_at |-> NoTime, account_id |-> "", provider |-> "", resource_type |-> "", resource_id |-> ""]

NoResult == EvaluationResult(<<>>, 0, 0, 0, <<>>)

IdleCall ==
    [pc |-> "idle", started |-> NoTime, ctx |-> NoContext, rule_configs |-> <<>>,
     idx |-> 0, rule |-> NoRule, specs |-> <<>>, iter_fail |-> 0, spec_i |-> 0,
     status |-> OPEN, findings |-> <<>>, provenance |-> <<>>, errors |-> <<>>,
     err_provenance |-> <<>>, rules_evaluated |-> 0, rules_failed |-> 0, result |-> NoResult,
     raised |-> NoException]

Finished == {"done", "raised"}

\* The config of the current iteration (cfg).
Cfg(call) == call.rule_configs[call.idx]

\* `continue`: on to the next config.
Continue(call) == [call EXCEPT !.idx = @ + 1, !.pc = "lookup"]

\* An exception leaves evaluate.
Raise(call, exc) == [call EXCEPT !.pc = "raised", !.raised = exc]

\* engine.py 90-136: validation of the snapshot, the context, the configs.
\* t0 is the clock at entry (started), t the clock read after it.
EvalBegin(call, snap, repo, t0, t) ==
    LET c0 == [call EXCEPT !.started = t0]
    IN  IF snap.resource_type = None
        THEN Raise(c0, OtherException("AttributeError", "'NoneType' object has no attribute 'value'"))
        ELSE LET missing_paths == GuardRequire(SnapshotDict(snap), REQUIRED_PATHS)
             IN  IF missing_paths # <<>>
                 THEN [c0 EXCEPT
                         !.pc = "done",
                         !.result = EvaluationResult(<<>>, 0, 0, t - t0,
                            << EvaluationError(VALIDATION_RULE_ID, INVALID_SCHEMA,
                                 "Missing required snapshot fields: " \o JoinPaths(missing_paths),
                                 snap.snapshot_id, t) >>)]
                 ELSE [c0 EXCEPT
                         !.pc = "lookup",
                         !.ctx = EvaluationContext(snap, t),
                         !.rule_configs = GetEnabledRules(repo, snap.resource_type, snap.account_id),
                         !.idx = 1]

\* `except UnknownRuleError` without the count of the failure.
OnUnknownRule_NotCounted(call, cfg, exc, snap, t) ==
    Continue([call EXCEPT
       !.errors = Append(@, EvaluationError(cfg.rule_id, UNKNOWN_RULE, exc.msg, snap.snapshot_id, t)),
       !.err_provenance = Append(@, call.idx)])

\* engine.py 142-153: `except UnknownRuleError`
OnUnknownRule(call, cfg, exc, snap, t) ==
    Continue([call EXCEPT
       !.rules_failed = @ + 1,
       !.errors = Append(@, EvaluationError(cfg.rule_id, UNKNOWN_RULE, exc.msg, snap.snapshot_id, t)),
       !.err_provenance = Append(@, call.idx)])

\* The lookup counting a config only once its rule is found.
EvalLookup_CountFound(call, snap, reg, t) ==
    LET cfg == Cfg(call)
        got == RegistryGet(reg, cfg.rule_id)
    IN  IF ~got.ok
        THEN OnUnknownRule(call, cfg, got.exc, snap, t)
        ELSE [call EXCEPT !.rules_evaluated = @ + 1, !.rule = got.rule, !.pc = "supports"]

\* engine.py 138-153: count the config and look its rule up.
EvalLookup(call, snap, reg, t) ==
    LET cfg == Cfg(call)
        c1  == [call EXCEPT !.rules_evaluated = @ + 1]
        got == RegistryGet(reg, cfg.rule_id)
    IN  IF ~got.ok
        THEN OnUnknownRule(c1, cfg, got.exc, snap, t)
        ELSE [c1 EXCEPT !.rule = got.rule, !.pc = "supports"]

\* The supports check with its result ignored: the rule is invoked anyway.
EvalSupports_Ignored(call, snap) ==
    IF ~call.rule.has_supports THEN [call EXCEPT !.pc = "invoke"]
    ELSE LET s == RuleSupports(call.rule, snap.resource_type)
         IN  IF s = "raise" THEN Raise(call, call.rule.exc)
             ELSE [call EXCEPT !.pc = "invoke"]

\* engine.py 155-156: hasattr(rule, "supports") and not rule.supports(...)
EvalSupports(call, snap) ==
    IF ~call.rule.has_supports THEN [call EXCEPT !.pc = "invoke"]
    ELSE LET s == RuleSupports(call.rule, snap.resource_type)
         IN  IF s = "raise" THEN Raise(call, call.rule.exc)
             ELSE IF s = "false" THEN Continue(call)
             ELSE [call EXCEPT !.pc = "invoke"]

\* `except RuleSkippedMissingData` counting the skip as a failure.
OnMissingData_Counted(call, cfg, exc, snap, t) ==
    Continue([call EXCEPT
       !.rules_failed = @ + 1,
       !.errors = Append(@, EvaluationError(cfg.rule_id, SKIPPED_MISSING_DATA, exc.msg, snap.snapshot_id, t)),
       !.err_provenance = Append(@, call.idx)])

\* engine.py 160-170: `except RuleSkippedMissingData`
OnMissingData(call, cfg, exc, snap, t) ==
    Continue([call EXCEPT
       !.errors = Append(@, EvaluationError(cfg.rule_id, SKIPPED_MISSING_DATA, exc.msg, snap.snapshot_id, t)),
       !.err_provenance = Append(@, call.idx)])

\* `except RuleInvalidSchema` recording the error under the validation sentinel.
OnInvalidSchema_Sentinel(call, cfg, exc, snap, t) ==
    Continue([call EXCEPT
       !.rules_failed = @ + 1,
       !.errors = Append(@, EvaluationError(VALIDATION_RULE_ID, INVALID_SCHEMA, exc.msg, snap.snapshot_id, t)),
       !.err_provenance = Append(@, call.idx)])

\* engine.py 171-182: `except RuleInvalidSchema`
OnInvalidSchema(call, cfg, exc, snap, t) ==
    Continue([call EXCEPT
       !.rules_failed = @ + 1,
       !.errors = Append(@, EvaluationError(cfg.rule_id, INVALID_SCHEMA, exc.msg, snap.snapshot_id, t)),
       !.err_provenance = Append(@, call.idx)])

\* OnException with `break` in place of `continue`: the failure ends the loop.
OnException_Break(call, cfg, exc, snap, t) ==
    [call EXCEPT
       !.rules_failed = @ + 1,
       !.errors = Append(@, EvaluationError(cfg.rule_id, RULE_EXCEPTION, exc.type \o ": " \o exc.msg, snap.snapshot_id, t)),
       !.err_provenance = Append(@, call.idx),
       !.idx = Len(call.rule_configs) + 1,
       !.pc = "lookup"]

\* `except Exception` recording the error without counting the failure.
OnException_NotCounted(call, cfg, exc, snap, t) ==
    Continue([call EXCEPT
       !.errors = Append(@, EvaluationError(cfg.rule_id, RULE_EXCEPTION, exc.type \o ": " \o exc.msg, snap.snapshot_id, t)),
       !.err_provenance = Append(@, call.idx)])

\* engine.py 183-194: `except Exception`
OnException(call, cfg, exc, snap, t) ==
    Continue([call EXCEPT
       !.rules_failed = @ + 1,
       !.errors = Append(@, EvaluationError(cfg.rule_id, RULE_EXCEPTION, exc.type \o ": " \o exc.msg, snap.snapshot_id, t)),
       !.err_provenance = Append(@, call.idx)])

\* The status without regard to the suppressed flag.
FindingStatus_AlwaysOpen(cfg) == OPEN

\* engine.py 196
FindingStatus(cfg) == IF cfg.suppressed THEN SUPPRESSED ELSE OPEN

\* engine.py 158-196: rule.evaluate under the three except clauses, then status.
EvalInvoke(call, snap, t) ==
    LET cfg == Cfg(call)
        r   == RuleEvaluate(call.rule, snap, cfg.params)
    IN  IF r.outcome = "raise"
        THEN IF r.exc.type = "RuleSkippedMissingData" THEN OnMissingData(call, cfg, r.exc, snap, t)
             ELSE IF r.exc.type = "RuleInvalidSchema" THEN OnInvalidSchema(call, cfg, r.exc, snap, t)
             ELSE OnException(call, cfg, r.exc, snap, t)
        ELSE [call EXCEPT
                 !.specs = r.specs, !.iter_fail = r.iter_fail, !.spec_i = 1,
                 !.status = FindingStatus(cfg),
                 !.pc = "emit"]

\* EvalEmit putting the finding at the head of the list instead of its end.
EvalEmit_Prepend(call, snap) ==
    IF call.spec_i = call.iter_fail THEN Raise(call, call.rule.exc)
    ELSE IF call.spec_i > Len(call.specs) THEN Continue(call)
    ELSE LET cfg  == Cfg(call)
             spec == call.specs[call.spec_i]
             sev  == ResolveSeverity(call.rule, cfg, spec.severity)
         IN  [call EXCEPT
                 !.findings = << CreateFinding(snap, call.ctx, call.rule.rule_id,
                                  call.rule.rule_version, sev, call.status, spec) >> \o @,
                 !.provenance = << [idx |-> call.idx, cfg |-> cfg, spec |-> spec,
                                  snapshot_id |-> snap.snapshot_id] >> \o @,
                 !.spec_i = @ + 1]

\* engine.py 198-210: one turn of `for spec in specs`: fetch the next spec
\* (the iterable may raise, or be exhausted), resolve its severity and append
\* the finding.  provenance records, beside each finding, the config and the
\* spec it was built from; err_provenance, beside each error, the position of
\* the config it was recorded for.
EvalEmit(call, snap) ==
    IF call.spec_i = call.iter_fail THEN Raise(call, call.rule.exc)
    ELSE IF call.spec_i > Len(call.specs) THEN Continue(call)
    ELSE LET cfg  == Cfg(call)
             spec == call.specs[call.spec_i]
             sev  == ResolveSeverity(call.rule, cfg, spec.severity)
         IN  [call EXCEPT
                 !.findings = Append(@, CreateFinding(snap, call.ctx, call.rule.rule_id,
                                  call.rule.rule_version, sev, call.status, spec)),
                 !.provenance = Append(@, [idx |-> call.idx, cfg |-> cfg, spec |-> spec,
                                  snapshot_id |-> snap.snapshot_id]),
                 !.spec_i = @ + 1]

\* engine.py 212-218: the stats and the result.
EvalFinalize(call, t) ==
    [call EXCEPT
        !.pc = "done",
        !.result = EvaluationResult(call.findings, call.rules_evaluated,
                       call.rules_failed, t - call.started, call.errors)]

\* The step a call takes at its place, with every clock read returning t.
EvalStep(call, snap, reg, t) ==
    IF call.pc = "lookup"
    THEN IF call.idx <= Len(call.rule_configs)
         THEN EvalLookup(call, snap, reg, t)
         ELSE EvalFinalize(call, t)
    ELSE IF call.pc = "supports" THEN EvalSupports(call, snap)
    ELSE IF call.pc = "invoke" THEN EvalInvoke(call, snap, t)
    ELSE EvalEmit(call, snap)

RECURSIVE EvalRun(_, _, _, _)
EvalRun(call, snap, reg, t) ==
    IF call.pc \in Finished THEN call
    ELSE EvalRun(EvalStep(call, snap, reg, t), snap, reg, t)

\* PolicyEngine.evaluate as a whole, called at instant t with no time passing
\* during the call: the call's last record (pc "done" with the result, or
\* "raised" with the exception).
Evaluate(snap, repo, reg, t) ==
    EvalRun(EvalBegin(IdleCall, snap, repo, t, t), snap, reg, t)

-----------------------------------------------------------------------------
(* The inputs of the model *)

Snapshot(account_id, resource_type, resource_id, captured_at) ==
    [snapshot_id   |-> "snap-1",
     account_id    |-> account_id,
     provider      |-> "AWS",
     resource_type |-> resource_type,
     resource_id   |-> resource_id,
     captured_at   |-> captured_at,
     metadata      |-> EmptyMap]

\* A snapshot with every field, one with no capture time, and the ones with
\* an absent (None) or empty required field.
Snapshots ==
    { Snapshot("123456789012", S3_BUCKET, "bucket-1", 1),
      Snapshot("123456789012", S3_BUCKET, "bucket-1", NoTime),
      Snapshot(None, S3_BUCKET, "", 1),
      Snapshot("", S3_BUCKET, "", 1),
      Snapshot("123456789012", None, None, 1) }

Configs ==
    { RuleConfig("R_OK", TRUE, None, FALSE),
      RuleConfig("R_OK", TRUE, "LOW", TRUE),
      RuleConfig("R_PLAIN", TRUE, None, TRUE),
      RuleConfig("R_PLAIN", FALSE, "CRITICAL", FALSE),
      RuleConfig("R_UNSUPPORTED", TRUE, None, FALSE),
      RuleConfig("R_SUPPORTS_RAISES", TRUE, None, FALSE),
      RuleConfig("R_MISSING", TRUE, None, FALSE),
      RuleConfig("R_INVALID", TRUE, None, FALSE),
      RuleConfig("R_RAISES", TRUE, None, FALSE),
      RuleConfig("R_LAZY", TRUE, None, FALSE),
      RuleConfig("R_UNREGISTERED", TRUE, "HIGH", FALSE),
      RuleConfig("R_UNREGISTERED", FALSE, None, FALSE) }

ConfigTuples == UNION { [1..n -> Configs] : n \in 0..MaxConfigs }

\* The callers, in the order of their calls.
Calls == {"c1", "c2"}

Earlier(c) == IF c = "c2" THEN {"c1"} ELSE {}

\* What a read of the clock can return: time may have passed since the last.
ClockReads == { t \in {now, now + 1} : t <= MaxClock }

-----------------------------------------------------------------------------
(* The state machine *)

Init ==
    /\ snapshot \in Snapshots
    /\ repository \in ConfigTuples
    /\ registry = RegisterAll(EmptyRegistry, Rules)
    /\ registrations = RegistrationOrder(Rules)
    /\ last_get = NoLookup
    /\ now = 1
    /\ calls = [c \in Calls |-> IdleCall]
    /\ snapshot_of = [c \in Calls |-> snapshot]

Inputs == <<snapshot, repository, registry, registrations, last_get, snapshot_of>>

\* evaluate is called: engine.py 90-136
Begin(c) ==
    /\ calls[c].pc = "idle"
    /\ \A e \in Earlier(c) : calls[e].pc \in Finished
    /\ \E t \in ClockReads :
          /\ calls' = [calls EXCEPT ![c] = EvalBegin(@, snapshot, repository, now, t)]
          /\ now' = t
    /\ UNCHANGED Inputs

\* engine.py 138-153
Lookup(c) ==
    /\ calls[c].pc = "lookup"
    /\ calls[c].idx <= Len(calls[c].rule_configs)
    /\ \E t \in ClockReads :
          /\ calls' = [calls EXCEPT ![c] = EvalLookup(@, snapshot, registry, t)]
          /\ now' = t
    /\ UNCHANGED Inputs

\* engine.py 155-156
Supports(c) ==
    /\ calls[c].pc = "supports"
    /\ calls' = [calls EXCEPT ![c] = EvalSupports(@, snapshot)]
    /\ UNCHANGED <<Inputs, now>>

\* engine.py 158-196
Invoke(c) ==
    /\ calls[c].pc = "invoke"
    /\ \E t \in ClockReads :
          /\ calls' = [calls EXCEPT ![c] = EvalInvoke(@, snapshot, t)]
          /\ now' = t
    /\ UNCHANGED Inputs

\* engine.py 198-210
Emit(c) ==
    /\ calls[c].pc = "emit"
    /\ calls' = [calls EXCEPT ![c] = EvalEmit(@, snapshot)]
    /\ UNCHANGED <<Inputs, now>>

\* engine.py 212-218
Finalize(c) ==
    /\ calls[c].pc = "lookup"
    /\ calls[c].idx > Len(calls[c].rule_configs)
    /\ \E t \in ClockReads :
          /\ calls' = [calls EXCEPT ![c] = EvalFinalize(@, t)]
          /\ now' = t
    /\ UNCHANGED Inputs

Next ==
    \E c \in Calls :
        \/ Begin(c)
        \/ Lookup(c)
        \/ Supports(c)
        \/ Invoke(c)
        \/ Emit(c)
        \/ Finalize(c)

Spec == Init /\ [][Next]_vars

-----------------------------------------------------------------------------
(* Vocabulary of the properties *)

\* A required field of the snapshot is absent.
FieldAbsent(snap) ==
    snap.account_id = None \/ snap.resource_id = None \/ snap.resource_type = None

MissingFields(snap) ==
    SelectSeq(<<"account_id", "resource_id", "resource_type">>, LAMBDA f : snap[f] = None)

\* The config's rule is registered and applies to the snapshot's resource type.
Applies(cfg) ==
    /\ cfg.rule_id \in DOMAIN registry
    /\ \/ ~registry[cfg.rule_id].has_supports
       \/ RuleSupports(registry[cfg.rule_id], snapshot.resource_type) = "true"

\* What the evaluate operation of the config's rule does on the snapshot.
OutcomeOf(cfg) == RuleEvaluate(registry[cfg.rule_id], snapshot, cfg.params)

SignalsMissingData(cfg) ==
    Applies(cfg) /\ OutcomeOf(cfg).outcome = "raise"
                 /\ OutcomeOf(cfg).exc.type = "RuleSkippedMissingData"

SignalsInvalidSchema(cfg) ==
    Applies(cfg) /\ OutcomeOf(cfg).outcome = "raise"
                 /\ OutcomeOf(cfg).exc.type = "RuleInvalidSchema"

FailsUnexpectedly(cfg) ==
    Applies(cfg) /\ OutcomeOf(cfg).outcome = "raise"
                 /\ OutcomeOf(cfg).exc.type \notin {"RuleSkippedMissingData", "RuleInvalidSchema"}

\* What a finished call has produced: the result it returned or, when an
\* exception left it, what it had accumulated by then.
Produced(call) ==
    IF call.pc = "done" THEN call.result
    ELSE EvaluationResult(call.findings, call.rules_evaluated, call.rules_failed, 0, call.errors)

RemoveAt(seq, i) == SubSeq(seq, 1, i - 1) \o SubSeq(seq, i + 1, Len(seq))

\* The positions, in the errors of a call, of the errors recorded for config i.
ErrorsOf(call, i) == { k \in 1..Len(call.errors) : call.err_provenance[k] = i }

\* The positions, in the findings of a call, of the findings built for config i.
FindingsOf(call, i) == { k \in 1..Len(call.findings) : call.provenance[k].idx = i }

-----------------------------------------------------------------------------
-----------------------------------------------------------------------------
-----------------------------------------------------------------------------
(* The engine with the default registry: the four built-in rules, and      *)
(* snapshots whose metadata takes the shapes the rules distinguish.        *)

\* The marker of a key the metadata does not have.
Absent == [kind |-> "absent"]

\* The mapping of the given values under their keys, without the absent ones.
Mapping(keys, values) ==
    LET present == { i \in 1..Len(keys) : values[i] # Absent }
    IN  [k \in { keys[i] : i \in present } |->
            values[CHOOSE i \in present : keys[i] = k]]

\* A snapshot's metadata.
Metadata(encryption, acl_grants, bucket_policy, public_access_block, transport) ==
    Mapping(<<"encryption", "acl_grants", "bucket_policy", "public_access_block", "transport">>,
            <<encryption, acl_grants, bucket_policy, public_access_block, transport>>)

EncryptionShapes ==
    { Absent, Null, Obj(EmptyMap), Str("AES256"), List(<< Bool(TRUE) >>),
      Obj([enabled |-> Bool(TRUE)]), Obj([enabled |-> Bool(FALSE)]),
      Obj([enabled |-> Null]), Obj([enabled |-> Str(<<"t", "r", "u", "e">>)]) }

\* A grant of an ACL.
Grant(grantee_uri, permission) ==
    Obj(Mapping(<<"grantee_uri", "permission">>, <<Str(grantee_uri), permission>>))

UserArn == "arn:aws:iam::123456789012:user/test"

READ == Str(<<"R", "E", "A", "D">>)

WRITE == Str(<<"W", "R", "I", "T", "E">>)

FULL_CONTROL == Str(<<"F", "U", "L", "L", "_", "C", "O", "N", "T", "R", "O", "L">>)

READ_ACP == Str(<<"R", "E", "A", "D", "_", "A", "C", "P">>)

AclShapes ==
    { Absent, Null, Str("not-a-list"), Obj(EmptyMap), List(<<>>),
      List(<< Grant(AWS_ALL_USERS_URI, READ) >>),
      List(<< Grant(AWS_AUTH_USERS_URI, FULL_CONTROL) >>),
      List(<< Grant(UserArn, READ) >>),
      List(<< Grant(UserArn, READ), Grant(AWS_ALL_USERS_URI, WRITE) >>),
      List(<< Grant(AWS_ALL_USERS_URI, READ), Grant(AWS_AUTH_USERS_URI, WRITE) >>),
      List(<< Str("a grant"), Grant(AWS_AUTH_USERS_URI, WRITE) >>),
      List(<< Grant(AWS_ALL_USERS_URI, Str(<<"r", "e", "a", "d">>)) >>),
      List(<< Grant(AWS_ALL_USERS_URI, READ_ACP) >>),
      List(<< Grant(AWS_ALL_USERS_URI, Str(<<"N", "O", "N", "E">>)) >>),
      List(<< Grant(AWS_ALL_USERS_URI, Null) >>),
      List(<< Grant(AWS_ALL_USERS_URI, Absent) >>) }

\* A statement of a bucket policy.
Statement(effect, principal, action) ==
    Obj(Mapping(<<"effect", "principal", "action">>, <<effect, principal, action>>))

Allow == Str(<<"A", "l", "l", "o", "w">>)

Deny == Str(<<"D", "e", "n", "y">>)

Star == Str(<<"*">>)

GetObject == Str(<<"s", "3", ":", "G", "e", "t", "O", "b", "j", "e", "c", "t">>)

Statements(items) == Obj([statements |-> List(items)])

PolicyShapes ==
    { Absent, Null, List(<<>>), Obj(EmptyMap), Obj([statements |-> Null]),
      Obj([statements |-> Obj(EmptyMap)]), Statements(<<>>),
      Statements(<< Statement(Allow, Star, List(<< GetObject >>)) >>),
      Statements(<< Statement(Str(<<"A", "L", "L", "O", "W">>), Str(<<" ", "*", " ">>),
                              Str(<<"S", "3", ":", "P", "u", "t">>)) >>),
      Statements(<< Statement(Allow, Obj([AWS |-> Star]),
                              List(<< Str(<<"e", "c", "2", ":", "R", "u", "n">>), GetObject >>)) >>),
      Statements(<< Statement(Deny, Star, List(<< GetObject >>)),
                    Statement(Allow, Star, List(<< GetObject >>)) >>),
      Statements(<< Statement(Deny, Star, List(<< GetObject >>)) >>),
      Statements(<< Statement(Allow, Str(<<"a", "r", "n", ":", "u", "s", "e", "r">>),
                              List(<< GetObject >>)) >>),
      Statements(<< Statement(Allow, Obj([AWS |-> List(<< Star >>)]), List(<< GetObject >>)) >>),
      Statements(<< Statement(Allow, Star, Star) >>),
      Statements(<< Statement(Allow, Star, Absent) >>),
      Statements(<< Statement(Absent, Star, List(<< GetObject >>)) >>),
      Statements(<< Statement(Allow, Absent, List(<< GetObject >>)) >>),
      Statements(<< Str("a statement") >>) }

PublicAccessBlockShapes ==
    { Absent, Null, Obj(EmptyMap), Str("on"),
      Obj([restrict_public_buckets |-> Bool(FALSE)]),
      Obj([restrict_public_buckets |-> Bool(TRUE)]),
      Obj([restrict_public_buckets |-> Null]) }

TransportShapes ==
    { Absent, Null, Obj(EmptyMap), Obj([requires_tls |-> Bool(TRUE)]),
      Obj([requires_tls |-> Bool(FALSE)]) }

\* The metadata of a bucket that violates none of the four policies, and of
\* one that violates the four (examples/s3_snapshot_public_unencrypted.json).
CompliantMetadata ==
    Metadata(Obj([enabled |-> Bool(TRUE)]), List(<<>>), Statements(<<>>),
             Obj([restrict_public_buckets |-> Bool(TRUE)]), Obj([requires_tls |-> Bool(TRUE)]))

PublicUnencryptedMetadata ==
    Metadata(Obj([enabled |-> Bool(FALSE)]), List(<< Grant(AWS_ALL_USERS_URI, READ) >>),
             Statements(<< Statement(Allow, Star, List(<< GetObject >>)) >>),
             Obj([restrict_public_buckets |-> Bool(FALSE)]), Obj([requires_tls |-> Bool(FALSE)]))

\* The metadata that differs from one of the two above in the shape under
\* one key, or in the shapes of the bucket policy and the public access block.
BuiltinMetadata ==
    LET bases == { <<Obj([enabled |-> Bool(TRUE)]), List(<<>>), Statements(<<>>),
                     Obj([restrict_public_buckets |-> Bool(TRUE)]), Obj([requires_tls |-> Bool(TRUE)])>>,
                   <<Obj([enabled |-> Bool(FALSE)]), List(<< Grant(AWS_ALL_USERS_URI, READ) >>),
                     Statements(<< Statement(Allow, Star, List(<< GetObject >>)) >>),
                     Obj([restrict_public_buckets |-> Bool(FALSE)]), Obj([requires_tls |-> Bool(FALSE)])>> }
    IN  UNION { { Metadata(e, b[2], b[3], b[4], b[5]) : e \in EncryptionShapes }
                \cup { Metadata(b[1], a, b[3], b[4], b[5]) : a \in AclShapes }
                \cup { Metadata(b[1], b[2], p, q, b[5]) : p \in PolicyShapes, q \in PublicAccessBlockShapes }
                \cup { Metadata(b[1], b[2], b[3], b[4], t) : t \in TransportShapes }
                : b \in bases }

BuiltinSnapshots ==
    { [Snapshot("123456789012", S3_BUCKET, "bucket-1", 1) EXCEPT !.metadata = m] : m \in BuiltinMetadata }

BuiltinIds == { r.rule_id : r \in BuiltinRules }

\* examples/policies.json: the four built-in rules, each enabled once.
FourRules ==
    << RuleConfig("S3_ENCRYPTION_DISABLED", TRUE, None, FALSE),
       RuleConfig("S3_PUBLIC_ACL", TRUE, None, FALSE),
       RuleConfig("S3_PUBLIC_POLICY", TRUE, None, FALSE),
       RuleConfig("S3_TLS_NOT_ENFORCED", TRUE, None, FALSE) >>

\* The repositories: the four rules, and one rule alone: enabled, suppressed
\* or with a severity override.
BuiltinRepositories ==
    { FourRules }
    \cup { << RuleConfig(id, TRUE, None, FALSE) >> : id \in BuiltinIds }
    \cup { << RuleConfig(id, TRUE, None, TRUE) >> : id \in BuiltinIds }
    \cup { << RuleConfig(id, TRUE, "LOW", FALSE) >> : id \in BuiltinIds }

\* builtins.py, default_registry()
DefaultRegistry ==
    Register(Register(Register(Register(EmptyRegistry, EncryptionEnabledRule), PublicAclRule),
                      PublicPolicyRule), SecureTransportRule)

InitBuiltins ==
    /\ snapshot \in BuiltinSnapshots
    /\ repository \in BuiltinRepositories
    /\ registry = DefaultRegistry
    /\ registrations = <<EncryptionEnabledRule, PublicAclRule, PublicPolicyRule, SecureTransportRule>>
    /\ last_get = NoLookup
    /\ now = 1
    /\ calls = [c \in Calls |-> IdleCall]
    /\ snapshot_of = [c \in Calls |-> snapshot]

SpecBuiltins == InitBuiltins /\ [][Next]_vars

(* registry.py: the registry on its own.  Rules are registered one at a    *)
(* time in a registry that starts empty, and looked up by id; registrations *)
(* is the sequence of the register calls made so far, last_get the last    *)
(* get call: its id, the number of register calls made before it, and what *)
(* it returned or raised.                                                  *)

MaxRegistrations == 4

\* The rules offered to register: two different rules under the id "R_OK".
RegistryRules ==
    { r \in Rules : r.rule_id \in {"R_OK", "R_PLAIN", "R_MISSING"} }
    \cup { PolicyRule("R_OK", "LOW", FALSE, "true", "return", <<>>, 0, NoException) }

RegistryIds == { r.rule_id : r \in RegistryRules } \cup {"R_UNREGISTERED"}

InitRegistry ==
    /\ snapshot = Snapshot("123456789012", S3_BUCKET, "bucket-1", 1)
    /\ repository = <<>>
    /\ registry = EmptyRegistry
    /\ registrations = <<>>
    /\ last_get = NoLookup
    /\ now = 1
    /\ calls = [c \in Calls |-> IdleCall]
    /\ snapshot_of = [c \in Calls |-> snapshot]

\* registry.register(rule)
RegisterRule(rule) ==
    /\ Len(registrations) < MaxRegistrations
    /\ registry' = Register(registry, rule)
    /\ registrations' = Append(registrations, rule)
    /\ UNCHANGED <<snapshot, repository, now, calls, last_get, snapshot_of>>

\* get entering a placeholder under an id it does not find, before it raises.
GetRule_Inserting(rule_id) ==
    /\ LET r == RegistryGet(registry, rule_id)
       IN  /\ last_get' = [rule_id |-> rule_id, at |-> Len(registrations), ok |-> r.ok,
                           rule |-> IF r.ok THEN r.rule ELSE NoException, exc |-> r.exc]
           /\ registry' = IF r.ok THEN registry ELSE Register(registry, r.rule)
    /\ UNCHANGED <<snapshot, repository, now, calls, registrations, snapshot_of>>

\* registry.get(rule_id)
GetRule(rule_id) ==
    /\ LET r == RegistryGet(registry, rule_id)
       IN  last_get' = [rule_id |-> rule_id, at |-> Len(registrations), ok |-> r.ok,
                        rule |-> IF r.ok THEN r.rule ELSE NoException, exc |-> r.exc]
    /\ UNCHANGED <<snapshot, repository, registry, now, calls, registrations, snapshot_of>>

NextRegistry ==
    \/ \E rule \in RegistryRules : RegisterRule(rule)
    \/ \E rule_id \in RegistryIds : GetRule(rule_id)

SpecRegistry == InitRegistry /\ [][NextRegistry]_vars

\* The positions, among the first n register calls, of those under rule_id.
RegisteredAt(rule_id, n) == { k \in 1..n : registrations[k].rule_id = rule_id }

MaxOf(S) == CHOOSE m \in S : \A x \in S : m >= x

\* What get(rule_id) must give after the first n register calls.
C13_Expected(rule_id, n, ok, rule, exc) ==
    IF RegisteredAt(rule_id, n) = {}
    THEN ~ok /\ exc = UnknownRuleError(rule_id)
    ELSE ok /\ exc = NoException /\ rule = registrations[MaxOf(RegisteredAt(rule_id, n))]

(* C13: registry semantics.  After any sequence of register calls, get(id) *)
(* returns the rule most recently registered under id, and fails with      *)
(* UnknownRuleError for an id never registered (both for the get calls     *)
(* made and for every id in the present registry); registering under an id *)
(* already present replaces that entry, raises nothing and leaves the      *)
(* entry of every other id as it was; registering a rule twice gives the   *)
(* registry that registering it once gives.                                *)
C13_RegistrySemantics ==
    /\ last_get # NoLookup =>
          C13_Expected(last_get.rule_id, last_get.at, last_get.ok, last_get.rule, last_get.exc)
    /\ \A id \in RegistryIds :
          LET r == RegistryGet(registry, id)
          IN  C13_Expected(id, Len(registrations), r.ok, r.rule, r.exc)
    /\ \A rule \in RegistryRules :
          LET after == Register(registry, rule)
          IN  /\ RegistryGet(after, rule.rule_id).ok
              /\ RegistryGet(after, rule.rule_id).rule = rule
              /\ DOMAIN after = DOMAIN registry \cup {rule.rule_id}
              /\ \A id \in RegistryIds \ {rule.rule_id} :
                    RegistryGet(after, id) = RegistryGet(registry, id)
              /\ Register(after, rule) = after

\* A get that returned the second of two different rules registered under
\* one id, with another id's rule registered between them, and since then
\* the first rule registered again.
C13_Witness ==
    /\ last_get.ok
    /\ last_get.at = 3
    /\ Len(registrations) = 4
    /\ registrations[1].rule_id = last_get.rule_id
    /\ registrations[3].rule_id = last_get.rule_id
    /\ registrations[2].rule_id # last_get.rule_id
    /\ registrations[1] # registrations[3]
    /\ last_get.rule = registrations[3]
    /\ registrations[4] = registrations[1]
    /\ registry[last_get.rule_id] = registrations[1]

(* C1: for every snapshot in which account id, resource id or resource type *)
(* is absent, evaluate returns a result with no findings, rules_evaluated = *)
(* 0, rules_failed = 0 and exactly one error, INVALID_SCHEMA under the rule *)
(* id "__validation__", whose message names every missing field; the       *)
(* repository is not asked for configs and no rule is looked up.           *)
C1_ValidationShortCircuit ==
    \A c \in Calls :
        (FieldAbsent(snapshot) /\ calls[c].pc # "idle") =>
            /\ calls[c].pc = "done"
            /\ calls[c].result.findings = <<>>
            /\ calls[c].result.stats.rules_evaluated = 0
            /\ calls[c].result.stats.rules_failed = 0
            /\ Len(calls[c].result.errors) = 1
            /\ calls[c].result.errors[1].error_code = INVALID_SCHEMA
            /\ calls[c].result.errors[1].rule_id = VALIDATION_RULE_ID
            /\ calls[c].result.errors[1].message =
                   "Missing required snapshot fields: " \o Join(MissingFields(snapshot), ", ")
            /\ calls[c].rule_configs = <<>>
            /\ calls[c].rules_evaluated = 0

(* C2: isolation.  When a call has finished and the evaluate operation of  *)
(* the rule of its i-th config failed unexpectedly, the call has produced  *)
(* exactly one error for that config, a RULE_EXCEPTION with the config's   *)
(* rule id, and no finding for it; its findings are those of the same call *)
(* with the i-th config removed, and its rules_failed is one more than     *)
(* that call's.                                                            *)
C2_Isolation ==
    \A c \in Calls :
        calls[c].pc \in Finished =>
            \A i \in 1..Len(calls[c].rule_configs) :
                (i < calls[c].idx /\ FailsUnexpectedly(calls[c].rule_configs[i])) =>
                    LET call == calls[c]
                        ref  == Evaluate(snapshot, RemoveAt(call.rule_configs, i), registry,
                                         call.ctx.evaluated_at)
                    IN  /\ Cardinality(ErrorsOf(call, i)) = 1
                        /\ \A k \in ErrorsOf(call, i) :
                              /\ Produced(call).errors[k].error_code = RULE_EXCEPTION
                              /\ Produced(call).errors[k].rule_id = call.rule_configs[i].rule_id
                        /\ FindingsOf(call, i) = {}
                        /\ ref.pc = call.pc
                        /\ Produced(call).findings = Produced(ref).findings
                        /\ Produced(call).stats.rules_failed = Produced(ref).stats.rules_failed + 1

\* A call returned whose first config's rule failed unexpectedly and whose
\* second config produced findings.
C2_Witness ==
    \E c \in Calls :
        /\ calls[c].pc = "done"
        /\ Len(calls[c].rule_configs) = 2
        /\ FailsUnexpectedly(calls[c].rule_configs[1])
        /\ FindingsOf(calls[c], 2) # {}
        /\ calls[c].result.stats.rules_failed = 1

(* C3: no failure of a rule leaves evaluate.  Once a call is in the loop    *)
(* over the configs, whatever a rule does in supports, in evaluate or while *)
(* its specs are consumed, the call does not raise.                        *)
C3_NoRuleFailureEscapes ==
    \A c \in Calls : calls[c].idx >= 1 => calls[c].pc # "raised"

\* sev is what the precedence override > spec severity > default gives.
C4_Precedence(sev, override, spec_severity, default) ==
    /\ override # None => sev = override
    /\ (override = None /\ spec_severity # None) => sev = spec_severity
    /\ (override = None /\ spec_severity = None) => sev = default

\* _resolve_severity over every combination of its inputs.
C4_ResolveAll ==
    \A o \in Severity \cup {None}, sp \in Severity \cup {None}, d \in Severity :
        C4_Precedence(ResolveSeverity([default_severity |-> d], [severity_override |-> o], sp),
                      o, sp, d)

(* C4: severity precedence.  Every finding carries the config's             *)
(* severity_override if it is set, else the severity of the FindingSpec it  *)
(* was built from if the rule set one, else the rule's default_severity;   *)
(* and _resolve_severity gives that for every combination of override,     *)
(* spec severity and default.                                              *)
C4_SeverityPrecedence ==
    /\ C4_ResolveAll
    /\ \A c \in Calls : \A k \in 1..Len(calls[c].findings) :
          LET p == calls[c].provenance[k]
          IN  C4_Precedence(calls[c].findings[k].severity, p.cfg.severity_override,
                            p.spec.severity, registry[p.cfg.rule_id].default_severity)

\* A returned call with three findings whose severities come from the three
\* sources and differ.
C4_Witness ==
    \E c \in Calls :
        /\ calls[c].pc = "done"
        /\ \E i, j, k \in 1..Len(calls[c].result.findings) :
              LET f == calls[c].result.findings
                  p == calls[c].provenance
              IN  /\ p[i].cfg.severity_override # None
                  /\ p[j].cfg.severity_override = None /\ p[j].spec.severity # None
                  /\ p[k].cfg.severity_override = None /\ p[k].spec.severity = None
                  /\ f[i].severity = p[i].cfg.severity_override
                  /\ f[j].severity = p[j].spec.severity
                  /\ f[k].severity = registry[p[k].cfg.rule_id].default_severity
                  /\ Cardinality({f[i].severity, f[j].severity, f[k].severity}) = 3

ToggleSuppressed(cfgs, i) == [cfgs EXCEPT ![i].suppressed = ~@]

WithoutStatus(f) == [f EXCEPT !.status = ""]

\* An error without the instant it occurred at.
ErrorView(e) == [e EXCEPT !.occurred_at = NoTime]

ErrorViews(errors) == [k \in 1..Len(errors) |-> ErrorView(errors[k])]

(* C5: suppression.  Every finding built for a config with suppressed set   *)
(* is SUPPRESSED and every other finding is OPEN; and a finished call has  *)
(* produced, for each of its configs, what the same call with only that    *)
(* config's suppressed flag toggled produces, but for the status of the    *)
(* findings of that config: the same findings in number and in every other *)
(* field, the same errors and the same counts.                             *)
C5_Suppression ==
    \A c \in Calls :
        /\ \A k \in 1..Len(calls[c].findings) :
              calls[c].findings[k].status =
                  IF calls[c].provenance[k].cfg.suppressed THEN SUPPRESSED ELSE OPEN
        /\ calls[c].pc \in Finished =>
              \A i \in 1..Len(calls[c].rule_configs) :
                  LET call == calls[c]
                      ref  == Evaluate(snapshot, ToggleSuppressed(call.rule_configs, i),
                                       registry, call.ctx.evaluated_at)
                      f    == Produced(call).findings
                      g    == Produced(ref).findings
                  IN  /\ ref.pc = call.pc
                      /\ Len(g) = Len(f)
                      /\ \A k \in 1..Len(f) :
                            /\ WithoutStatus(g[k]) = WithoutStatus(f[k])
                            /\ (g[k].status = f[k].status) <=> (k \notin FindingsOf(call, i))
                      /\ ErrorViews(Produced(ref).errors) = ErrorViews(Produced(call).errors)
                      /\ Produced(ref).stats.rules_evaluated = Produced(call).stats.rules_evaluated
                      /\ Produced(ref).stats.rules_failed = Produced(call).stats.rules_failed

\* A returned call with a SUPPRESSED and an OPEN finding of the same rule and key.
C5_Witness ==
    \E c \in Calls :
        /\ calls[c].pc = "done"
        /\ \E j, k \in 1..Len(calls[c].result.findings) :
              LET f == calls[c].result.findings
              IN  /\ f[j].status = SUPPRESSED
                  /\ f[k].status = OPEN
                  /\ f[j].finding_id = f[k].finding_id

(* C6: a missing-data skip is not a failure.  The step of a call whose     *)
(* rule's evaluate signals missing data appends exactly one error,         *)
(* SKIPPED_MISSING_DATA with the config's rule id, adds no finding, leaves  *)
(* rules_failed and rules_evaluated as they are, and goes on to the next   *)
(* config.                                                                 *)
C6_MissingDataSkip ==
    [][\A c \in Calls :
          (/\ calls[c].pc = "invoke"
           /\ SignalsMissingData(Cfg(calls[c]))
           /\ calls'[c] # calls[c]) =>
              /\ Len(calls'[c].errors) = Len(calls[c].errors) + 1
              /\ SubSeq(calls'[c].errors, 1, Len(calls[c].errors)) = calls[c].errors
              /\ calls'[c].errors[Len(calls'[c].errors)].error_code = SKIPPED_MISSING_DATA
              /\ calls'[c].errors[Len(calls'[c].errors)].rule_id = Cfg(calls[c]).rule_id
              /\ calls'[c].findings = calls[c].findings
              /\ calls'[c].rules_failed = calls[c].rules_failed
              /\ calls'[c].rules_evaluated = calls[c].rules_evaluated
              /\ calls'[c].rule_configs = calls[c].rule_configs
              /\ calls'[c].idx = calls[c].idx + 1
              /\ calls'[c].pc = "lookup"]_vars

\* A returned call whose first config's rule signalled missing data and whose
\* second config produced findings: one error, no failure.
C6_Witness ==
    \E c \in Calls :
        /\ calls[c].pc = "done"
        /\ Len(calls[c].rule_configs) = 2
        /\ SignalsMissingData(calls[c].rule_configs[1])
        /\ Len(calls[c].result.errors) = 1
        /\ calls[c].result.errors[1].error_code = SKIPPED_MISSING_DATA
        /\ calls[c].result.stats.rules_failed = 0
        /\ FindingsOf(calls[c], 1) = {}
        /\ FindingsOf(calls[c], 2) # {}

FindingView(f) ==
    [finding_id |-> f.finding_id, title |-> f.title, severity |-> f.severity,
     evidence |-> f.evidence, status |-> f.status]

FindingViews(findings) == [k \in 1..Len(findings) |-> FindingView(findings[k])]

(* C7: determinism of findings.  Two calls of evaluate on the same          *)
(* snapshot, configs and registry that both return give finding lists of   *)
(* the same length that agree, position by position, on finding_id, title, *)
(* severity, evidence and status.                                          *)
C7_Determinism ==
    (calls["c1"].pc = "done" /\ calls["c2"].pc = "done") =>
        /\ Len(calls["c1"].result.findings) = Len(calls["c2"].result.findings)
        /\ FindingViews(calls["c1"].result.findings) = FindingViews(calls["c2"].result.findings)

\* Both calls returned findings, the second called at a later instant.
C7_Witness ==
    /\ calls["c1"].pc = "done" /\ calls["c2"].pc = "done"
    /\ calls["c1"].result.findings # <<>>
    /\ calls["c2"].started > calls["c1"].started

(* C8, as claimed: two calls on the same inputs return results equal in    *)
(* every field but stats.duration_ms, the errors' occurred_at and the      *)
(* findings' detected_at included.                                         *)
C8_OnlyDurationVaries ==
    (calls["c1"].pc = "done" /\ calls["c2"].pc = "done") =>
        [calls["c1"].result EXCEPT !.stats.duration_ms = 0]
            = [calls["c2"].result EXCEPT !.stats.duration_ms = 0]

\* A result without what the clock decides: the duration, the instant of
\* each error and, for a snapshot with no capture time, detected_at.
ResultView(result) ==
    [findings |-> [k \in 1..Len(result.findings) |->
                      IF snapshot.captured_at = NoTime
                      THEN [result.findings[k] EXCEPT !.detected_at = NoTime]
                      ELSE result.findings[k]],
     stats    |-> [result.stats EXCEPT !.duration_ms = 0],
     errors   |-> ErrorViews(result.errors)]

(* C8, amended: two calls on the same inputs return results equal in every *)
(* field but stats.duration_ms, each error's occurred_at and, when the     *)
(* snapshot carries no capture time, each finding's detected_at.           *)
C8_OnlyTimesVary ==
    (calls["c1"].pc = "done" /\ calls["c2"].pc = "done") =>
        ResultView(calls["c1"].result) = ResultView(calls["c2"].result)

\* Both calls returned, for a snapshot with a capture time, findings and an
\* error that occurred at different instants.
C8_Witness ==
    /\ calls["c1"].pc = "done" /\ calls["c2"].pc = "done"
    /\ snapshot.captured_at # NoTime
    /\ calls["c1"].result.findings # <<>>
    /\ calls["c1"].result.errors # <<>>
    /\ calls["c1"].result.errors[1].occurred_at # calls["c2"].result.errors[1].occurred_at

\* FindingFactory.create gives, for a triple, the finding_id it gives for the
\* same triple with every other input different.
C9_CreateFromTriple ==
    \A s \in Snapshots, v \in {"1.0.0", "2.0.0"}, sev \in Severity,
       st \in {OPEN, SUPPRESSED}, t \in 1..MaxClock, rid \in {"R_OK", "R_PLAIN"},
       key \in {"k1", "k2"} :
       CreateFinding(s, EvaluationContext(s, t), rid, v, sev, st,
                     FindingSpec(key, "a title", sev)).finding_id
         = CreateFinding(Snapshot("", S3_BUCKET, "", NoTime), NoContext, rid, "", "LOW",
                         OPEN, FindingSpec(key, "", None)).finding_id

(* C9: the finding identity depends on the triple alone.  Any two findings, *)
(* of one call or of two, built from equal (snapshot id, rule id, finding  *)
(* key) have equal finding_id; and FindingFactory.create gives one         *)
(* finding_id per triple whatever the account and resource fields, the     *)
(* rule version, the severity, the status, the title and the instant.      *)
C9_IdentityFromTriple ==
    /\ C9_CreateFromTriple
    /\ \A c, d \in Calls :
          \A j \in 1..Len(calls[c].findings), k \in 1..Len(calls[d].findings) :
              (/\ calls[c].provenance[j].snapshot_id = calls[d].provenance[k].snapshot_id
               /\ calls[c].findings[j].rule_id = calls[d].findings[k].rule_id
               /\ calls[c].provenance[j].spec.finding_key = calls[d].provenance[k].spec.finding_key)
              => calls[c].findings[j].finding_id = calls[d].findings[k].finding_id

\* Two findings of one triple that differ in severity and status, and the
\* same in a second call at another instant.
C9_Witness ==
    /\ calls["c1"].pc = "done" /\ calls["c2"].pc = "done"
    /\ calls["c2"].started > calls["c1"].started
    /\ \E j, k \in 1..Len(calls["c1"].findings) :
          /\ calls["c1"].findings[j].rule_id = calls["c1"].findings[k].rule_id
          /\ calls["c1"].provenance[j].spec.finding_key = calls["c1"].provenance[k].spec.finding_key
          /\ calls["c1"].findings[j].severity # calls["c1"].findings[k].severity
          /\ calls["c1"].findings[j].status # calls["c1"].findings[k].status
          /\ calls["c1"].findings[j].finding_id = calls["c2"].findings[k].finding_id

(* C10: unknown rule.  The step of a call at a config whose rule id is not *)
(* registered adds one to rules_evaluated and to rules_failed, appends     *)
(* exactly one error, UNKNOWN_RULE with that rule id, adds no finding, and *)
(* goes on to the next config.                                             *)
C10_UnknownRule ==
    [][\A c \in Calls :
          (/\ calls[c].pc = "lookup"
           /\ calls[c].idx <= Len(calls[c].rule_configs)
           /\ calls'[c] # calls[c]
           /\ Cfg(calls[c]).rule_id \notin DOMAIN registry) =>
              /\ calls'[c].rules_evaluated = calls[c].rules_evaluated + 1
              /\ calls'[c].rules_failed = calls[c].rules_failed + 1
              /\ Len(calls'[c].errors) = Len(calls[c].errors) + 1
              /\ SubSeq(calls'[c].errors, 1, Len(calls[c].errors)) = calls[c].errors
              /\ calls'[c].errors[Len(calls'[c].errors)].error_code = UNKNOWN_RULE
              /\ calls'[c].errors[Len(calls'[c].errors)].rule_id = Cfg(calls[c]).rule_id
              /\ calls'[c].findings = calls[c].findings
              /\ calls'[c].rule_configs = calls[c].rule_configs
              /\ calls'[c].idx = calls[c].idx + 1
              /\ calls'[c].pc = "lookup"]_vars

\* A returned call whose first config names an unregistered rule and whose
\* second config produced findings.
C10_Witness ==
    \E c \in Calls :
        /\ calls[c].pc = "done"
        /\ Len(calls[c].rule_configs) = 2
        /\ calls[c].rule_configs[1].rule_id \notin DOMAIN registry
        /\ calls[c].result.stats.rules_evaluated = 2
        /\ calls[c].result.stats.rules_failed = 1
        /\ Len(calls[c].result.errors) = 1
        /\ calls[c].result.errors[1].error_code = UNKNOWN_RULE
        /\ calls[c].result.errors[1].rule_id = calls[c].rule_configs[1].rule_id
        /\ FindingsOf(calls[c], 2) # {}

(* C11: invalid schema from a rule.  The step of a call whose rule's       *)
(* evaluate signals invalid schema adds one to rules_failed, appends       *)
(* exactly one error, INVALID_SCHEMA with the config's rule id (not the    *)
(* validation sentinel), adds no finding, and goes on to the next config.  *)
C11_InvalidSchema ==
    [][\A c \in Calls :
          (/\ calls[c].pc = "invoke"
           /\ SignalsInvalidSchema(Cfg(calls[c]))
           /\ calls'[c] # calls[c]) =>
              /\ calls'[c].rules_failed = calls[c].rules_failed + 1
              /\ calls'[c].rules_evaluated = calls[c].rules_evaluated
              /\ Len(calls'[c].errors) = Len(calls[c].errors) + 1
              /\ SubSeq(calls'[c].errors, 1, Len(calls[c].errors)) = calls[c].errors
              /\ calls'[c].errors[Len(calls'[c].errors)].error_code = INVALID_SCHEMA
              /\ calls'[c].errors[Len(calls'[c].errors)].rule_id = Cfg(calls[c]).rule_id
              /\ calls'[c].errors[Len(calls'[c].errors)].rule_id # VALIDATION_RULE_ID
              /\ calls'[c].findings = calls[c].findings
              /\ calls'[c].rule_configs = calls[c].rule_configs
              /\ calls'[c].idx = calls[c].idx + 1
              /\ calls'[c].pc = "lookup"]_vars

\* A returned call whose first config's rule signalled invalid schema and
\* whose second config produced findings: one error, one failure.
C11_Witness ==
    \E c \in Calls :
        /\ calls[c].pc = "done"
        /\ Len(calls[c].rule_configs) = 2
        /\ SignalsInvalidSchema(calls[c].rule_configs[1])
        /\ Len(calls[c].result.errors) = 1
        /\ calls[c].result.errors[1].error_code = INVALID_SCHEMA
        /\ calls[c].result.errors[1].rule_id = calls[c].rule_configs[1].rule_id
        /\ calls[c].result.stats.rules_failed = 1
        /\ FindingsOf(calls[c], 1) = {}
        /\ FindingsOf(calls[c], 2) # {}

\* The least element of a non-empty set of positions.
MinOf(S) == CHOOSE m \in S : \A x \in S : m <= x

(* C12: ordering of the result.  At every point of a call the findings are *)
(* in the order of the positions of their configs in the list the          *)
(* repository returned and, within one config, in the order in which the   *)
(* rule emitted its FindingSpecs (the n-th finding of a config is built    *)
(* from the n-th spec its rule emits); the errors are in the order of the  *)
(* positions of the configs they occurred at; and the returned result      *)
(* carries the two lists in that order.                                    *)
C12_Ordering ==
    \A c \in Calls :
        LET call == calls[c]
        IN  /\ \A j, k \in 1..Len(call.findings) :
                  j < k => call.provenance[j].idx <= call.provenance[k].idx
            /\ \A j \in 1..Len(call.findings) :
                  LET i       == call.provenance[j].idx
                      n       == j - MinOf(FindingsOf(call, i)) + 1
                      emitted == OutcomeOf(call.rule_configs[i]).specs
                  IN  /\ i \in 1..Len(call.rule_configs)
                      /\ n \in 1..Len(emitted)
                      /\ call.findings[j].rule_id = call.rule_configs[i].rule_id
                      /\ call.findings[j].title = emitted[n].title
                      /\ call.findings[j].finding_id =
                            StableFindingId(snapshot.snapshot_id, call.rule_configs[i].rule_id,
                                            emitted[n].finding_key)
            /\ \A j, k \in 1..Len(call.errors) :
                  j < k => call.err_provenance[j] < call.err_provenance[k]
            /\ \A j \in 1..Len(call.errors) :
                  /\ call.err_provenance[j] \in 1..Len(call.rule_configs)
                  /\ call.errors[j].rule_id = call.rule_configs[call.err_provenance[j]].rule_id
            /\ call.pc = "done" =>
                  /\ call.result.findings = call.findings
                  /\ call.result.errors = call.errors

\* A returned call with the two findings of its first config, in emission
\* order, before the finding of its second.
C12_Witness ==
    \E c \in Calls :
        /\ calls[c].pc = "done"
        /\ Len(calls[c].result.findings) = 3
        /\ FindingsOf(calls[c], 1) = {1, 2}
        /\ FindingsOf(calls[c], 2) = {3}
        /\ calls[c].result.findings[1].title = "first"
        /\ calls[c].result.findings[2].title = "second"
        /\ calls[c].result.findings[3].rule_id # calls[c].result.findings[1].rule_id

\* A returned call with the errors of two configs, in the order of the configs.
C12_WitnessErrors ==
    \E c \in Calls :
        /\ calls[c].pc = "done"
        /\ Len(calls[c].result.errors) = 2
        /\ calls[c].result.errors[1].rule_id = calls[c].rule_configs[1].rule_id
        /\ calls[c].result.errors[2].rule_id = calls[c].rule_configs[2].rule_id
        /\ calls[c].result.errors[1].rule_id # calls[c].result.errors[2].rule_id

\* The account id or the resource id of the snapshot is the empty string.
EmptyField(snap) == snap.account_id = "" \/ snap.resource_id = ""

\* The number of enabled configs of the repository.
EnabledCount == Cardinality({ i \in 1..Len(repository) : repository[i].enabled })

EncryptionOn(metadata) ==
    /\ "encryption" \in DOMAIN metadata
    /\ metadata["encryption"].kind = "object"
    /\ "enabled" \in DOMAIN metadata["encryption"].fields
    /\ metadata["encryption"].fields["enabled"] = Bool(TRUE)

\* EncryptionEnabledRule.evaluate on every metadata: no FindingSpec exactly
\* when encryption is on, else one, 'encryption_disabled', with no severity.
C15_RuleEmits ==
    \A m \in BuiltinMetadata :
        LET r == EncryptionEvaluate(m)
        IN  /\ r.outcome = "return"
            /\ r.iter_fail = 0
            /\ (r.specs = <<>>) <=> EncryptionOn(m)
            /\ ~EncryptionOn(m) =>
                  /\ Len(r.specs) = 1
                  /\ r.specs[1].finding_key = "encryption_disabled"
                  /\ r.specs[1].severity = None

\* The positions of the call's configs that enable the rule with no override.
PlainConfigsOf(call, rule_id) ==
    { i \in 1..Len(call.rule_configs) :
         /\ call.rule_configs[i].rule_id = rule_id
         /\ call.rule_configs[i].severity_override = None }

(* C15, as claimed: EncryptionEnabledRule emits no FindingSpec exactly     *)
(* when metadata.encryption is an object whose 'enabled' is true and else  *)
(* one, 'encryption_disabled', with no severity of its own; and for every  *)
(* config that enables the rule with no override the engine returns, for a *)
(* snapshot whose encryption is not on, exactly one finding, of severity   *)
(* HIGH and status OPEN, and no error.                                     *)
C15_EncryptionRule ==
    /\ C15_RuleEmits
    /\ \A c \in Calls :
          (calls[c].pc = "done" /\ ~EncryptionOn(snapshot.metadata)) =>
              \A i \in PlainConfigsOf(calls[c], "S3_ENCRYPTION_DISABLED") :
                  /\ ErrorsOf(calls[c], i) = {}
                  /\ Cardinality(FindingsOf(calls[c], i)) = 1
                  /\ \A k \in FindingsOf(calls[c], i) :
                        /\ calls[c].result.findings[k].rule_id = "S3_ENCRYPTION_DISABLED"
                        /\ calls[c].result.findings[k].severity = "HIGH"
                        /\ calls[c].result.findings[k].status = OPEN

(* C15, amended: the same, with the status OPEN for a config that is not   *)
(* suppressed and SUPPRESSED for one that is; and no finding and no error  *)
(* for a snapshot whose encryption is on.                                  *)
C15_EncryptionRuleUnlessSuppressed ==
    /\ C15_RuleEmits
    /\ \A c \in Calls :
          calls[c].pc = "done" =>
              \A i \in PlainConfigsOf(calls[c], "S3_ENCRYPTION_DISABLED") :
                  /\ ErrorsOf(calls[c], i) = {}
                  /\ Cardinality(FindingsOf(calls[c], i)) =
                        IF EncryptionOn(snapshot.metadata) THEN 0 ELSE 1
                  /\ \A k \in FindingsOf(calls[c], i) :
                        /\ calls[c].result.findings[k].rule_id = "S3_ENCRYPTION_DISABLED"
                        /\ calls[c].result.findings[k].severity = "HIGH"
                        /\ calls[c].result.findings[k].status =
                              IF calls[c].rule_configs[i].suppressed THEN SUPPRESSED ELSE OPEN

\* The scenario: encryption.enabled = false and the rule alone, enabled, with
\* no override and not suppressed: one finding, HIGH and OPEN, and no error.
C15_Witness ==
    \E c \in Calls :
        /\ calls[c].pc = "done"
        /\ Get(snapshot.metadata, "encryption") = Obj([enabled |-> Bool(FALSE)])
        /\ repository = << RuleConfig("S3_ENCRYPTION_DISABLED", TRUE, None, FALSE) >>
        /\ Len(calls[c].result.findings) = 1
        /\ calls[c].result.findings[1].severity = "HIGH"
        /\ calls[c].result.findings[1].status = OPEN
        /\ calls[c].result.errors = <<>>

\* The grant is an object whose grantee URI is AllUsers or AuthenticatedUsers.
ToPublicGroup(g) ==
    /\ g.kind = "object"
    /\ "grantee_uri" \in DOMAIN g.fields
    /\ g.fields["grantee_uri"] \in {Str(AWS_ALL_USERS_URI), Str(AWS_AUTH_USERS_URI)}

\* The permission of the grant, in upper case; empty when it has none.
PermissionOf(g) ==
    IF "permission" \in DOMAIN g.fields /\ g.fields["permission"].kind = "str"
    THEN Upper(g.fields["permission"].val)
    ELSE <<>>

\* The permission of the grant is READ, WRITE or FULL_CONTROL.
PermissionIs(g) == PermissionOf(g) \in {READ.val, WRITE.val, FULL_CONTROL.val}

\* The permission of the grant contains READ, WRITE or FULL_CONTROL
\* (READ_ACP and WRITE_ACP do).
PermissionContains(g) ==
    \E w \in {READ.val, WRITE.val, FULL_CONTROL.val} : Contains(w, PermissionOf(g))

\* PublicAclRule.evaluate signals missing data, signals invalid schema, or
\* returns this many specs, each 'public_acl'.
AclSignals(m, type) ==
    PublicAclEvaluate(m).outcome = "raise" /\ PublicAclEvaluate(m).exc.type = type

AclEmits(m, n) ==
    /\ PublicAclEvaluate(m).outcome = "return"
    /\ PublicAclEvaluate(m).iter_fail = 0
    /\ Len(PublicAclEvaluate(m).specs) = n
    /\ \A k \in 1..n : PublicAclEvaluate(m).specs[k].finding_key = "public_acl"

\* The outcome of the rule as claimed: missing data when the metadata has no
\* acl_grants, invalid schema when acl_grants is present and not a list,
\* else one spec if a grant to a public group has the permission READ, WRITE
\* or FULL_CONTROL, and none otherwise.
C16_RuleAsClaimed ==
    \A m \in BuiltinMetadata :
        IF "acl_grants" \notin DOMAIN m THEN AclSignals(m, "RuleSkippedMissingData")
        ELSE IF m["acl_grants"].kind # "list" THEN AclSignals(m, "RuleInvalidSchema")
        ELSE IF \E k \in 1..Len(m["acl_grants"].items) :
                    ToPublicGroup(m["acl_grants"].items[k]) /\ PermissionIs(m["acl_grants"].items[k])
             THEN AclEmits(m, 1)
             ELSE AclEmits(m, 0)

\* The outcome of the rule: missing data when acl_grants is absent or null,
\* invalid schema when it is anything else that is not a list, else one spec
\* if a grant to a public group has a permission that contains READ, WRITE
\* or FULL_CONTROL, and none otherwise.
C16_RuleOutcome ==
    \A m \in BuiltinMetadata :
        IF "acl_grants" \notin DOMAIN m \/ Get(m, "acl_grants") = Null
        THEN AclSignals(m, "RuleSkippedMissingData")
        ELSE IF m["acl_grants"].kind # "list" THEN AclSignals(m, "RuleInvalidSchema")
        ELSE IF \E k \in 1..Len(m["acl_grants"].items) :
                    ToPublicGroup(m["acl_grants"].items[k]) /\ PermissionContains(m["acl_grants"].items[k])
             THEN AclEmits(m, 1)
             ELSE AclEmits(m, 0)

\* What the engine returns for a config of S3_PUBLIC_ACL whose rule signals
\* missing data: no finding, one SKIPPED_MISSING_DATA error, and
\* rules_failed counting the failures of the other configs alone.
C16_EngineSkips ==
    \A c \in Calls :
        (calls[c].pc = "done" /\ AclSignals(snapshot.metadata, "RuleSkippedMissingData")) =>
            \A i \in 1..Len(calls[c].rule_configs) :
                calls[c].rule_configs[i].rule_id = "S3_PUBLIC_ACL" =>
                    /\ FindingsOf(calls[c], i) = {}
                    /\ Cardinality(ErrorsOf(calls[c], i)) = 1
                    /\ \A k \in ErrorsOf(calls[c], i) :
                          /\ calls[c].result.errors[k].error_code = SKIPPED_MISSING_DATA
                          /\ calls[c].result.errors[k].rule_id = "S3_PUBLIC_ACL"
                    /\ calls[c].result.stats.rules_failed =
                          Cardinality({ k \in 1..Len(calls[c].result.errors) :
                                          /\ k \notin ErrorsOf(calls[c], i)
                                          /\ calls[c].result.errors[k].error_code # SKIPPED_MISSING_DATA })

(* C16, as claimed: PublicAclRule signals missing data when the metadata   *)
(* has no acl_grants (the engine then returns no finding for it, one       *)
(* SKIPPED_MISSING_DATA error, rules_failed unaffected), invalid schema    *)
(* when acl_grants is present but not a list, and for a list one           *)
(* FindingSpec 'public_acl' if a grant to AllUsers or AuthenticatedUsers   *)
(* has a READ, WRITE or FULL_CONTROL permission, and none otherwise.       *)
C16_PublicAclRule == C16_RuleAsClaimed /\ C16_EngineSkips

(* C16, amended: missing data when acl_grants is absent or null; invalid   *)
(* schema when it is present, not null and not a list; for a list one      *)
(* FindingSpec 'public_acl' if a grant to AllUsers or AuthenticatedUsers   *)
(* has a permission whose text, in upper case, contains READ, WRITE or     *)
(* FULL_CONTROL, and none otherwise; the engine's result as claimed.       *)
C16_PublicAclRuleNullIsMissing == C16_RuleOutcome /\ C16_EngineSkips

\* The scenario: metadata with no acl_grants and the rule alone: no finding,
\* one SKIPPED_MISSING_DATA error, no failure.
C16_Witness ==
    \E c \in Calls :
        /\ calls[c].pc = "done"
        /\ "acl_grants" \notin DOMAIN snapshot.metadata
        /\ repository = << RuleConfig("S3_PUBLIC_ACL", TRUE, None, FALSE) >>
        /\ calls[c].result.findings = <<>>
        /\ Len(calls[c].result.errors) = 1
        /\ calls[c].result.errors[1].error_code = SKIPPED_MISSING_DATA
        /\ calls[c].result.stats.rules_failed = 0
        /\ calls[c].result.stats.rules_evaluated = 1

\* The statement has effect Allow, a wildcard principal and an s3: action.
AllowsPublic(st) ==
    /\ st.kind = "object"
    /\ "effect" \in DOMAIN st.fields
    /\ st.fields["effect"].kind = "str"
    /\ Lower(st.fields["effect"].val) = Lower(Allow.val)
    /\ "principal" \in DOMAIN st.fields
    /\ \/ st.fields["principal"].kind = "str" /\ Strip(st.fields["principal"].val) = Star.val
       \/ /\ st.fields["principal"].kind = "object"
          /\ "AWS" \in DOMAIN st.fields["principal"].fields
          /\ st.fields["principal"].fields["AWS"] = Star
    /\ "action" \in DOMAIN st.fields
    /\ LET a == st.fields["action"]
           s3(x) == x.kind = "str" /\ Len(x.val) >= 3 /\ Lower(SubSeq(x.val, 1, 3)) = <<"s", "3", ":">>
       IN  \/ s3(a)
           \/ a.kind = "list" /\ \E k \in 1..Len(a.items) : s3(a.items[k])

\* The bucket policy of the metadata has a statement that allows the public.
PolicyIsPublic(m) ==
    /\ "bucket_policy" \in DOMAIN m
    /\ m["bucket_policy"].kind = "object"
    /\ "statements" \in DOMAIN m["bucket_policy"].fields
    /\ m["bucket_policy"].fields["statements"].kind = "list"
    /\ \E k \in 1..Len(m["bucket_policy"].fields["statements"].items) :
          AllowsPublic(m["bucket_policy"].fields["statements"].items[k])

\* public_access_block.restrict_public_buckets is false.
NotRestricted(m) ==
    /\ "public_access_block" \in DOMAIN m
    /\ m["public_access_block"].kind = "object"
    /\ "restrict_public_buckets" \in DOMAIN m["public_access_block"].fields
    /\ m["public_access_block"].fields["restrict_public_buckets"] = Bool(FALSE)

\* PublicPolicyRule.evaluate on every metadata: one spec, 'public_policy',
\* exactly when the policy is public, with severity CRITICAL exactly when
\* the public buckets are not restricted and no severity otherwise.
C17_RuleEmits ==
    \A m \in BuiltinMetadata :
        LET r == PublicPolicyEvaluate(m)
        IN  /\ r.iter_fail = 0
            /\ Len(r.specs) = IF PolicyIsPublic(m) THEN 1 ELSE 0
            /\ PolicyIsPublic(m) =>
                  /\ r.outcome = "return"
                  /\ r.specs[1].finding_key = "public_policy"
                  /\ r.specs[1].severity = IF NotRestricted(m) THEN "CRITICAL" ELSE None

(* C17: public-policy rule and escalation.  PublicPolicyRule emits exactly *)
(* one FindingSpec, 'public_policy', when a statement of the bucket policy *)
(* has effect Allow, a wildcard principal and an s3: action (a Deny        *)
(* statement does not count) and none otherwise; the spec's severity is    *)
(* CRITICAL exactly when public_access_block.restrict_public_buckets is    *)
(* false and absent otherwise; and for a config of the rule with no        *)
(* override the engine's finding has severity CRITICAL in the first case   *)
(* and HIGH in the second.                                                 *)
C17_PublicPolicyRule ==
    /\ C17_RuleEmits
    /\ \A c \in Calls :
          calls[c].pc = "done" =>
              \A i \in PlainConfigsOf(calls[c], "S3_PUBLIC_POLICY") :
                  /\ Cardinality(FindingsOf(calls[c], i)) =
                        IF PolicyIsPublic(snapshot.metadata) THEN 1 ELSE 0
                  /\ \A k \in FindingsOf(calls[c], i) :
                        /\ calls[c].result.findings[k].rule_id = "S3_PUBLIC_POLICY"
                        /\ calls[c].result.findings[k].severity =
                              IF NotRestricted(snapshot.metadata) THEN "CRITICAL" ELSE "HIGH"

\* The scenario: a statement {Allow, "*", ["s3:GetObject"]} and
\* restrict_public_buckets = false: one finding, escalated to CRITICAL.
C17_Witness ==
    \E c \in Calls :
        /\ calls[c].pc = "done"
        /\ Get(snapshot.metadata, "bucket_policy") =
              Statements(<< Statement(Allow, Star, List(<< GetObject >>)) >>)
        /\ Get(snapshot.metadata, "public_access_block") = Obj([restrict_public_buckets |-> Bool(FALSE)])
        /\ repository = << RuleConfig("S3_PUBLIC_POLICY", TRUE, None, FALSE) >>
        /\ Len(calls[c].result.findings) = 1
        /\ calls[c].result.findings[1].severity = "CRITICAL"
        /\ calls[c].result.errors = <<>>

\* The same policy with the public buckets restricted: the default, HIGH.
C17_WitnessDefault ==
    \E c \in Calls :
        /\ calls[c].pc = "done"
        /\ PolicyIsPublic(snapshot.metadata)
        /\ Get(snapshot.metadata, "public_access_block") = Obj([restrict_public_buckets |-> Bool(TRUE)])
        /\ repository = << RuleConfig("S3_PUBLIC_POLICY", TRUE, None, FALSE) >>
        /\ Len(calls[c].result.findings) = 1
        /\ calls[c].result.findings[1].severity = "HIGH"

\* The metadata violates the policy of each of the four built-in rules.
ViolatesAllFour(m) ==
    /\ ~EncryptionOn(m)
    /\ "acl_grants" \in DOMAIN m /\ m["acl_grants"].kind = "list"
    /\ \E k \in 1..Len(m["acl_grants"].items) :
          ToPublicGroup(m["acl_grants"].items[k]) /\ PermissionIs(m["acl_grants"].items[k])
    /\ PolicyIsPublic(m)
    /\ ~(/\ "transport" \in DOMAIN m
         /\ m["transport"].kind = "object"
         /\ "requires_tls" \in DOMAIN m["transport"].fields
         /\ m["transport"].fields["requires_tls"] = Bool(TRUE))

\* Each built-in rule returns at most one FindingSpec, on every metadata.
C18_RulesEmitAtMostOne ==
    \A m \in BuiltinMetadata, id \in BuiltinIds :
        /\ Len(BuiltinEvaluate(id, m).specs) <= 1
        /\ BuiltinEvaluate(id, m).iter_fail = 0

(* C18: each of the four built-in rules returns at most one FindingSpec    *)
(* per invocation; so with the default registry and the four built-in     *)
(* rule ids each enabled once a call holds, at every point, at most four   *)
(* findings, of pairwise distinct rule ids, and for a snapshot that        *)
(* violates the four policies it returns exactly four findings, one per    *)
(* rule id.                                                                *)
C18_AtMostOnePerRule ==
    /\ C18_RulesEmitAtMostOne
    /\ registry = DefaultRegistry
    /\ \A c \in Calls :
          repository = FourRules =>
              /\ Len(calls[c].findings) <= 4
              /\ \A j, k \in 1..Len(calls[c].findings) :
                    j # k => calls[c].findings[j].rule_id # calls[c].findings[k].rule_id
              /\ calls[c].pc = "done" =>
                    /\ calls[c].result.findings = calls[c].findings
                    /\ ViolatesAllFour(snapshot.metadata) =>
                          /\ Len(calls[c].result.findings) = 4
                          /\ { calls[c].result.findings[k].rule_id : k \in 1..4 } =
                                {"S3_ENCRYPTION_DISABLED", "S3_PUBLIC_ACL",
                                 "S3_PUBLIC_POLICY", "S3_TLS_NOT_ENFORCED"}

\* The public, unencrypted bucket of the examples under the four rules: four
\* findings, one per rule id.
C18_Witness ==
    \E c \in Calls :
        /\ calls[c].pc = "done"
        /\ repository = FourRules
        /\ snapshot.metadata = PublicUnencryptedMetadata
        /\ Len(calls[c].result.findings) = 4
        /\ calls[c].result.stats.rules_evaluated = 4
        /\ calls[c].result.errors = <<>>

\* The ways a config can end: what the engine does with the config at
\* position i of a call that is past it.
ConfigOutcome(call, i) ==
    LET cfg == call.rule_configs[i]
    IN  IF cfg.rule_id \notin DOMAIN registry THEN "unknown rule"
        ELSE IF ~Applies(cfg) THEN "unsupported"
        ELSE IF SignalsMissingData(cfg) THEN "missing data"
        ELSE IF SignalsInvalidSchema(cfg) THEN "invalid schema"
        ELSE IF FailsUnexpectedly(cfg) THEN "unexpected failure"
        ELSE IF FindingsOf(call, i) = {} THEN "no finding"
        ELSE "findings"

(* C19: rules_evaluated accounting.  Every result evaluate returns has     *)
(* rules_evaluated equal to the number of configs the repository returned  *)
(* for the call (the enabled configs), whatever the outcome of each; and   *)
(* during the call rules_evaluated is the number of configs the loop has   *)
(* reached.                                                                *)
C19_RulesEvaluated ==
    \A c \in Calls :
        /\ calls[c].pc = "done" =>
              /\ calls[c].result.stats.rules_evaluated = Len(calls[c].rule_configs)
              /\ calls[c].result.stats.rules_evaluated = EnabledCount
              /\ calls[c].rule_configs = GetEnabledRules(repository, snapshot.resource_type, snapshot.account_id)
        /\ calls[c].pc = "lookup" => calls[c].rules_evaluated = calls[c].idx - 1
        /\ calls[c].pc \in {"supports", "invoke", "emit"} => calls[c].rules_evaluated = calls[c].idx

\* A returned call that counted two configs of different outcomes, neither
\* of them a success: an unknown rule, an unsupported resource type, missing
\* data, invalid schema or an unexpected failure.
C19_Witness ==
    \E c \in Calls :
        /\ calls[c].pc = "done"
        /\ Len(repository) = 2
        /\ calls[c].result.stats.rules_evaluated = 2
        /\ ConfigOutcome(calls[c], 1) = "unknown rule"
        /\ ConfigOutcome(calls[c], 2) = "unsupported"

\* A returned call that counted a config whose rule failed unexpectedly and
\* one that produced findings.
C19_WitnessOutcomes ==
    \E c \in Calls :
        /\ calls[c].pc = "done"
        /\ calls[c].result.stats.rules_evaluated = 2
        /\ ConfigOutcome(calls[c], 1) = "unexpected failure"
        /\ ConfigOutcome(calls[c], 2) = "findings"

\* The number of the errors whose code is in the set.
CountCodes(errors, codes) ==
    Cardinality({ k \in 1..Len(errors) : errors[k].error_code \in codes })

FailureCodes == {UNKNOWN_RULE, INVALID_SCHEMA, RULE_EXCEPTION}

C20_WitnessInLoop ==
    \E c \in Calls :
        /\ calls[c].pc = "emit"
        /\ calls[c].idx = 2
        /\ calls[c].rules_failed = 1
        /\ Len(calls[c].errors) = 1
        /\ calls[c].findings # <<>>

\* The rule of the config is registered, has a supports predicate and the
\* predicate returns false for the snapshot's resource type.
Unsupported(cfg) ==
    /\ cfg.rule_id \in DOMAIN registry
    /\ registry[cfg.rule_id].has_supports
    /\ RuleSupports(registry[cfg.rule_id], snapshot.resource_type) = "false"

\* The rule of the config is registered and has no supports attribute.
NoSupportsPredicate(cfg) ==
    /\ cfg.rule_id \in DOMAIN registry
    /\ ~registry[cfg.rule_id].has_supports

C21_SkipStep ==
    [][\A c \in Calls :
          (calls[c].pc = "supports" /\ calls'[c] # calls[c]) =>
              /\ Unsupported(Cfg(calls[c])) =>
                    /\ calls'[c].pc = "lookup"
                    /\ calls'[c].idx = calls[c].idx + 1
                    /\ calls'[c].errors = calls[c].errors
                    /\ calls'[c].findings = calls[c].findings
                    /\ calls'[c].rules_failed = calls[c].rules_failed
                    /\ calls'[c].rules_evaluated = calls[c].rules_evaluated
                    /\ calls'[c].rules_evaluated = calls[c].idx
              /\ NoSupportsPredicate(Cfg(calls[c])) =>
                    /\ calls'[c].pc = "invoke"
                    /\ calls'[c].idx = calls[c].idx]_vars

C21_NeverInvoked ==
    \A c \in Calls :
        LET call == calls[c]
        IN  /\ call.pc \in {"invoke", "emit"} => ~Unsupported(Cfg(call))
            /\ \A i \in 1..Len(call.rule_configs) :
                  Unsupported(call.rule_configs[i]) =>
                      /\ ErrorsOf(call, i) = {}
                      /\ FindingsOf(call, i) = {}
            /\ call.pc = "done" /\ Len(call.rule_configs) > 0 /\ ~FieldAbsent(snapshot) =>
                  /\ call.result.stats.rules_evaluated = Len(call.rule_configs)
                  /\ (\A i \in 1..Len(call.rule_configs) : Unsupported(call.rule_configs[i]))
                        => /\ call.result.stats.rules_failed = 0
                           /\ call.result.errors = <<>>
                           /\ call.result.findings = <<>>

(* C21: unsupported resource type.  The step of a call at a rule whose     *)
(* supports predicate returns false for the snapshot's resource type goes  *)
(* on to the next config without invoking the rule's evaluate and leaves   *)
(* errors, findings, rules_failed and rules_evaluated (which has counted   *)
(* the config) as they are; a call is never at the invocation of such a    *)
(* rule and holds no error and no finding for its config; and a rule with  *)
(* no supports predicate goes on to be invoked.                            *)
C21_UnsupportedSkipped == []C21_NeverInvoked /\ C21_SkipStep

\* A returned call whose first config's rule does not support the resource
\* type and whose second config's rule, with no supports predicate, produced
\* a finding: two configs counted, no failure, no error.
C21_Witness ==
    \E c \in Calls :
        /\ calls[c].pc = "done"
        /\ Len(calls[c].rule_configs) = 2
        /\ Unsupported(calls[c].rule_configs[1])
        /\ NoSupportsPredicate(calls[c].rule_configs[2])
        /\ calls[c].result.stats.rules_evaluated = 2
        /\ calls[c].result.stats.rules_failed = 0
        /\ calls[c].result.errors = <<>>
        /\ FindingsOf(calls[c], 1) = {}
        /\ FindingsOf(calls[c], 2) # {}

(* C22: detected_at comes from the snapshot, not the clock.  When the      *)
(* snapshot carries a capture time every finding of every call has         *)
(* detected_at equal to it, and two calls that return, made at whatever    *)
(* instants, return findings equal in every field; when it carries none,   *)
(* every finding of a call has the instant the call read the clock for its *)
(* context, between its entry and the present, so that all the findings of *)
(* one call share one detected_at.                                         *)
C22_DetectedAtFromSnapshot ==
    /\ \A c \in Calls :
          LET call == calls[c]
          IN  /\ \A j \in 1..Len(call.findings) :
                    IF snapshot.captured_at # NoTime
                    THEN call.findings[j].detected_at = snapshot.captured_at
                    ELSE /\ call.findings[j].detected_at = call.ctx.evaluated_at
                         /\ call.started <= call.findings[j].detected_at
                         /\ call.findings[j].detected_at <= now
              /\ \A j, k \in 1..Len(call.findings) :
                    call.findings[j].detected_at = call.findings[k].detected_at
              /\ call.pc = "done" => call.result.findings = call.findings
    /\ (/\ snapshot.captured_at # NoTime
        /\ \A c \in Calls : calls[c].pc = "done") =>
            calls["c1"].result.findings = calls["c2"].result.findings

\* Two returned calls on a snapshot with a capture time, entered at different
\* instants, the second after the capture time: equal, non-empty findings
\* stamped with the capture time.
C22_Witness ==
    /\ snapshot.captured_at # NoTime
    /\ \A c \in Calls : calls[c].pc = "done"
    /\ calls["c1"].started # calls["c2"].started
    /\ calls["c2"].started > snapshot.captured_at
    /\ Len(calls["c1"].result.findings) >= 2
    /\ calls["c1"].result.findings = calls["c2"].result.findings
    /\ calls["c2"].result.findings[1].detected_at = snapshot.captured_at

\* Two returned calls on a snapshot with no capture time whose findings carry
\* the instants of the calls, one per call.
C22_WitnessNoCaptureTime ==
    /\ snapshot.captured_at = NoTime
    /\ \A c \in Calls : calls[c].pc = "done"
    /\ Len(calls["c1"].result.findings) >= 2
    /\ calls["c1"].result.findings[1].detected_at = calls["c1"].result.findings[2].detected_at
    /\ calls["c1"].result.findings[1].detected_at # calls["c2"].result.findings[1].detected_at

\* The positions of the enabled configs of a config tuple.
EnabledPositions(rules) == { i \in 1..Len(rules) : rules[i].enabled }

\* The (resource type, account id) scopes get_enabled_rules is asked with.
Scopes == {S3_BUCKET, None} \X {"123456789012", "999999999999", "", None}

\* out is the configs of rules at the positions P, in increasing position.
IsSelection(out, rules, P) ==
    /\ Len(out) = Cardinality(P)
    /\ \E f \in [1..Len(out) -> P] :
          /\ \A j, k \in 1..Len(out) : j < k => f[j] < f[k]
          /\ \A k \in 1..Len(out) : out[k] = rules[f[k]]

C23_RepositoryFilters ==
    \A rules \in ConfigTuples :
        /\ \A s \in Scopes :
              IsSelection(GetEnabledRules(rules, s[1], s[2]), rules, EnabledPositions(rules))
        /\ \A s1, s2 \in Scopes :
              GetEnabledRules(rules, s1[1], s1[2]) = GetEnabledRules(rules, s2[1], s2[2])

(* C23: static repository filtering.  get_enabled_rules returns the configs *)
(* with enabled = true, in the order they have in the repository's tuple,   *)
(* and the same list for every resource type and account id; a call holds  *)
(* that list, so the config it looks up or invokes is always an enabled     *)
(* one, every finding and every error it holds comes from an enabled       *)
(* config, and a finished call has produced what the same call produces on *)
(* the repository without any one of its disabled configs, registered or   *)
(* not: the same findings, errors, rules_evaluated and rules_failed.       *)
C23_StaticFiltering ==
    /\ C23_RepositoryFilters
    /\ \A c \in Calls :
          LET call == calls[c]
          IN  /\ call.pc \notin {"idle", "raised"} /\ ~FieldAbsent(snapshot) =>
                    call.rule_configs = GetEnabledRules(repository, snapshot.resource_type, snapshot.account_id)
              /\ call.pc \in {"supports", "invoke", "emit"} => Cfg(call).enabled
              /\ call.pc = "lookup" /\ call.idx <= Len(call.rule_configs) => Cfg(call).enabled
              /\ \A j \in 1..Len(call.findings) : call.provenance[j].cfg.enabled
              /\ \A j \in 1..Len(call.errors) :
                    call.rule_configs[call.err_provenance[j]].enabled
              /\ call.rules_evaluated <= Cardinality(EnabledPositions(repository))
              /\ call.pc \in Finished =>
                    \A i \in 1..Len(repository) :
                        ~repository[i].enabled =>
                            LET ref == Evaluate(snapshot, RemoveAt(repository, i), registry,
                                                call.ctx.evaluated_at)
                            IN  /\ ref.pc = call.pc
                                /\ Produced(call).findings = Produced(ref).findings
                                /\ ErrorViews(Produced(call).errors) = ErrorViews(Produced(ref).errors)
                                /\ Produced(call).stats.rules_evaluated = Produced(ref).stats.rules_evaluated
                                /\ Produced(call).stats.rules_failed = Produced(ref).stats.rules_failed

\* A returned call on a repository whose first config is disabled and names
\* an unregistered rule, and whose second config is enabled and produced
\* findings: one config evaluated, no failure, no error.
C23_Witness ==
    \E c \in Calls :
        /\ calls[c].pc = "done"
        /\ Len(repository) = 2
        /\ ~repository[1].enabled
        /\ repository[1].rule_id \notin DOMAIN registry
        /\ repository[2].enabled
        /\ calls[c].rule_configs = << repository[2] >>
        /\ calls[c].result.stats.rules_evaluated = 1
        /\ calls[c].result.stats.rules_failed = 0
        /\ calls[c].result.errors = <<>>
        /\ calls[c].result.findings # <<>>

-----------------------------------------------------------------------------
(* engine.py: concurrent callers.  The callers "c1" and "c2" call evaluate  *)
(* on one engine (one repository, one registry), each on its own snapshot   *)
(* (snapshot_of), and their calls run interleaved step by step.  The        *)
(* accumulators of a call are locals of evaluate (engine.py 90-94): each    *)
(* call has its own record.  No register call is made.                     *)

\* A second resource, with its own snapshot id.
OtherSnapshot(captured_at) ==
    [Snapshot("210987654321", S3_BUCKET, "bucket-2", captured_at) EXCEPT !.snapshot_id = "snap-2"]

ConcurrentSnapshots ==
    { Snapshot("123456789012", S3_BUCKET, "bucket-1", 1),
      Snapshot("123456789012", S3_BUCKET, "bucket-1", NoTime),
      OtherSnapshot(2),
      OtherSnapshot(NoTime) }

ConcurrentConfigs ==
    { RuleConfig("R_OK", TRUE, None, FALSE),
      RuleConfig("R_PLAIN", TRUE, None, TRUE),
      RuleConfig("R_UNSUPPORTED", TRUE, None, FALSE),
      RuleConfig("R_MISSING", TRUE, None, FALSE),
      RuleConfig("R_RAISES", TRUE, None, FALSE),
      RuleConfig("R_UNREGISTERED", TRUE, "HIGH", FALSE) }

ConcurrentRepositories == UNION { [1..n -> ConcurrentConfigs] : n \in 1..MaxConfigs }

InitConcurrent ==
    /\ snapshot_of \in [Calls -> ConcurrentSnapshots]
    /\ snapshot = snapshot_of["c1"]
    /\ repository \in ConcurrentRepositories
    /\ registry = RegisterAll(EmptyRegistry, Rules)
    /\ registrations = RegistrationOrder(Rules)
    /\ last_get = NoLookup
    /\ now = 1
    /\ calls = [c \in Calls |-> IdleCall]

\* evaluate is called by c, whatever the other caller is doing: engine.py 90-136
ConcurrentBegin(c) ==
    /\ calls[c].pc = "idle"
    /\ \E t \in ClockReads :
          /\ calls' = [calls EXCEPT ![c] = EvalBegin(@, snapshot_of[c], repository, now, t)]
          /\ now' = t
    /\ UNCHANGED Inputs

\* The lookup with rules_evaluated kept on the engine, shared by its callers:
\* the count of a config goes to every call in progress.
ConcurrentLookup_SharedCounter(c) ==
    /\ calls[c].pc = "lookup"
    /\ calls[c].idx <= Len(calls[c].rule_configs)
    /\ \E t \in ClockReads :
          /\ calls' = [d \in Calls |->
                          IF d = c THEN EvalLookup(calls[d], snapshot_of[d], registry, t)
                          ELSE IF calls[d].pc \in {"idle", "done", "raised"} THEN calls[d]
                          ELSE [calls[d] EXCEPT !.rules_evaluated = @ + 1]]
          /\ now' = t
    /\ UNCHANGED Inputs

\* engine.py 138-153
ConcurrentLookup(c) ==
    /\ calls[c].pc = "lookup"
    /\ calls[c].idx <= Len(calls[c].rule_configs)
    /\ \E t \in ClockReads :
          /\ calls' = [calls EXCEPT ![c] = EvalLookup(@, snapshot_of[c], registry, t)]
          /\ now' = t
    /\ UNCHANGED Inputs

\* engine.py 155-156
ConcurrentSupports(c) ==
    /\ calls[c].pc = "supports"
    /\ calls' = [calls EXCEPT ![c] = EvalSupports(@, snapshot_of[c])]
    /\ UNCHANGED <<Inputs, now>>

\* engine.py 158-196
ConcurrentInvoke(c) ==
    /\ calls[c].pc = "invoke"
    /\ \E t \in ClockReads :
          /\ calls' = [calls EXCEPT ![c] = EvalInvoke(@, snapshot_of[c], t)]
          /\ now' = t
    /\ UNCHANGED Inputs

\* engine.py 198-210
ConcurrentEmit(c) ==
    /\ calls[c].pc = "emit"
    /\ calls' = [calls EXCEPT ![c] = EvalEmit(@, snapshot_of[c])]
    /\ UNCHANGED <<Inputs, now>>

\* engine.py 212-218
ConcurrentFinalize(c) ==
    /\ calls[c].pc = "lookup"
    /\ calls[c].idx > Len(calls[c].rule_configs)
    /\ \E t \in ClockReads :
          /\ calls' = [calls EXCEPT ![c] = EvalFinalize(@, t)]
          /\ now' = t
    /\ UNCHANGED Inputs

NextConcurrent ==
    \E c \in Calls :
        \/ ConcurrentBegin(c)
        \/ ConcurrentLookup(c)
        \/ ConcurrentSupports(c)
        \/ ConcurrentInvoke(c)
        \/ ConcurrentEmit(c)
        \/ ConcurrentFinalize(c)

SpecConcurrent == InitConcurrent /\ [][NextConcurrent]_vars

\* The (rule id, code) sequence of a list of errors.
ErrorCodes(errors) ==
    [k \in 1..Len(errors) |-> <<errors[k].rule_id, errors[k].error_code>>]

\* The call of c, run alone on its snapshot from entry to return.
Alone(c) == Evaluate(snapshot_of[c], repository, registry, calls[c].ctx.evaluated_at)

(* C24: concurrent evaluations are independent.  With the calls of two      *)
(* callers interleaved step by step on one registry and one repository,    *)
(* on the same snapshot or on two, a call that has finished has produced   *)
(* what it produces when it runs alone: the same findings, the same        *)
(* (rule id, code) sequence of errors, the same rules_evaluated and        *)
(* rules_failed; at every step a call's counters are those of its own      *)
(* position in its own list, its errors carry its own snapshot id and its  *)
(* findings the identity and the fields of its own snapshot; and a step of *)
(* one call leaves the record of the other as it is.                       *)
C24_Independent ==
    /\ [](\A c \in Calls :
            LET call == calls[c]
            IN  /\ call.pc \in Finished =>
                      /\ Alone(c).pc = call.pc
                      /\ Produced(call).findings = Produced(Alone(c)).findings
                      /\ ErrorCodes(Produced(call).errors) = ErrorCodes(Produced(Alone(c)).errors)
                      /\ Produced(call).stats.rules_evaluated = Produced(Alone(c)).stats.rules_evaluated
                      /\ Produced(call).stats.rules_failed = Produced(Alone(c)).stats.rules_failed
                /\ call.pc \in {"supports", "invoke", "emit"} => call.rules_evaluated = call.idx
                /\ call.pc = "lookup" => call.rules_evaluated = call.idx - 1
                /\ call.rules_failed = CountCodes(call.errors, FailureCodes)
                /\ \A k \in 1..Len(call.errors) :
                      call.errors[k].snapshot_id = snapshot_of[c].snapshot_id
                /\ \A k \in 1..Len(call.findings) :
                      /\ call.findings[k].finding_id =
                            StableFindingId(snapshot_of[c].snapshot_id, call.provenance[k].cfg.rule_id,
                                            call.provenance[k].spec.finding_key)
                      /\ call.findings[k].account_id = snapshot_of[c].account_id
                      /\ call.findings[k].resource_id = snapshot_of[c].resource_id
                      /\ call.findings[k].detected_at = call.ctx.evaluated_at)
    /\ [][\A c, d \in Calls : (c # d /\ calls'[c] # calls[c]) => calls'[d] = calls[d]]_vars

\* Two returned calls on different snapshots that overlapped in time (both
\* entered at instant 1, both recorded an error at instant 2), each with an
\* error and findings of its own snapshot.
C24_Witness ==
    /\ snapshot_of["c1"].snapshot_id # snapshot_of["c2"].snapshot_id
    /\ \A c \in Calls :
          /\ calls[c].pc = "done"
          /\ calls[c].started = 1
          /\ Len(calls[c].result.errors) = 1
          /\ calls[c].result.errors[1].occurred_at = 2
          /\ calls[c].result.errors[1].snapshot_id = snapshot_of[c].snapshot_id
          /\ calls[c].result.findings # <<>>
          /\ calls[c].result.findings[1].account_id = snapshot_of[c].account_id
    /\ calls["c1"].result.findings[1].finding_id # calls["c2"].result.findings[1].finding_id

\* The two calls in the middle of their loops at once, on the same snapshot.
C24_WitnessInterleaved ==
    /\ snapshot_of["c1"] = snapshot_of["c2"]
    /\ calls["c1"].pc = "emit" /\ calls["c1"].idx = 2 /\ calls["c1"].errors # <<>>
    /\ calls["c2"].pc = "invoke" /\ calls["c2"].idx = 1

-----------------------------------------------------------------------------
(* engine.py, registry.py: evaluate calls and, between their steps, direct *)
(* calls of registry.get, for a registered id and for one that is not.     *)

LookupIds == {"R_OK", "R_UNREGISTERED"}

NextReadOnly ==
    \/ Next
    \/ \E rule_id \in LookupIds : GetRule(rule_id)

SpecReadOnly == Init /\ [][NextReadOnly]_vars

(* C25: evaluate is read-only on its inputs.  No step of an evaluate call,  *)
(* whatever its outcome, and no call of registry.get, found or not,        *)
(* changes a field of the snapshot, the registry's mapping from ids to     *)
(* rules or the repository's tuple of configs; so after any sequence of    *)
(* calls the registry maps the ids of the registered rules to those rules, *)
(* and what get returned is the entry the unchanged registry holds, or     *)
(* UnknownRuleError for an id with no entry.                               *)
C25_ReadOnly ==
    /\ [][/\ snapshot' = snapshot
          /\ snapshot_of' = snapshot_of
          /\ repository' = repository
          /\ registry' = registry
          /\ DOMAIN registry' = DOMAIN registry
          /\ registrations' = registrations]_vars
    /\ [](/\ DOMAIN registry = { r.rule_id : r \in Rules }
          /\ \A r \in Rules : registry[r.rule_id] = r
          /\ last_get # NoLookup =>
                IF last_get.rule_id \in DOMAIN registry
                THEN last_get.ok /\ last_get.rule = registry[last_get.rule_id]
                ELSE ~last_get.ok /\ last_get.exc = UnknownRuleError(last_get.rule_id))

\* After a call that returned findings and an UNKNOWN_RULE error, a call
\* that returned more errors, and a get that failed with UnknownRuleError:
\* the registry has no entry under the unknown id.
C25_Witness ==
    /\ \A c \in Calls : calls[c].pc = "done"
    /\ calls["c1"].result.findings # <<>>
    /\ \E k \in 1..Len(calls["c1"].result.errors) :
          calls["c1"].result.errors[k].error_code = UNKNOWN_RULE
    /\ last_get # NoLookup
    /\ ~last_get.ok
    /\ last_get.rule_id \notin DOMAIN registry
    /\ registry = RegisterAll(EmptyRegistry, Rules)

\* After a call that an exception left when the snapshot has no resource
\* type, and a get that found its rule.
C25_WitnessRaised ==
    /\ \A c \in Calls : calls[c].pc = "raised"
    /\ snapshot.resource_type = None
    /\ last_get.ok
    /\ last_get.rule = registry[last_get.rule_id]

-----------------------------------------------------------------------------
(* engine.py: a call runs to completion.  evaluate is a sequential          *)
(* function: once called, its next statement is executed, and every        *)
(* operation of a rule returns or raises in finite time.                   *)

\* The step of call c at its place.
CallStep(c) == Lookup(c) \/ Supports(c) \/ Invoke(c) \/ Emit(c) \/ Finalize(c)

Fairness == \A c \in Calls : WF_vars(CallStep(c))

SpecFair == Init /\ [][Next]_vars /\ Fairness

\* One pass in list order: a step of a call keeps its list of configs, stays
\* at its config or moves to the next one, never back; evaluate is invoked
\* from the supports check of the same config and is not invoked again
\* after it has returned or failed; a config that produced an error is left
\* at once.
C26_LinearPass ==
    [][\A c \in Calls :
          (calls[c].pc # "idle" /\ calls'[c] # calls[c]) =>
              /\ calls'[c].rule_configs = calls[c].rule_configs
              /\ calls'[c].idx \in {calls[c].idx, calls[c].idx + 1}
              /\ calls'[c].idx <= Len(calls[c].rule_configs) + 1
              /\ calls'[c].pc = "invoke" =>
                    calls[c].pc = "supports" /\ calls'[c].idx = calls[c].idx
              /\ calls[c].pc = "invoke" =>
                    \/ calls'[c].pc = "emit" /\ calls'[c].idx = calls[c].idx
                    \/ calls'[c].pc = "lookup" /\ calls'[c].idx = calls[c].idx + 1
              /\ calls[c].pc = "emit" => calls'[c].pc \in {"emit", "lookup", "raised"}
              /\ Len(calls'[c].errors) > Len(calls[c].errors) =>
                    calls'[c].pc = "lookup" /\ calls'[c].idx = calls[c].idx + 1
              /\ calls'[c].pc = "lookup" =>
                    calls'[c].idx = calls[c].idx + 1
              /\ calls'[c].pc = "done" =>
                    calls[c].pc = "lookup" /\ calls[c].idx = Len(calls[c].rule_configs) + 1]_vars

\* A call that has been made eventually returns a result.
C26_Completes == \A c \in Calls : (calls[c].pc # "idle") ~> (calls[c].pc = "done")

\* A call ends only by returning, and only after the last config of its
\* list or on the validation short-circuit.
C26_NoEarlyExit ==
    [](\A c \in Calls :
          /\ calls[c].pc # "raised"
          /\ calls[c].pc = "done" =>
                \/ calls[c].result.errors # <<>> /\ calls[c].result.errors[1].rule_id = VALIDATION_RULE_ID
                \/ /\ calls[c].idx = Len(calls[c].rule_configs) + 1
                   /\ calls[c].result.stats.rules_evaluated = Len(calls[c].rule_configs))

(* C26: one linear pass that completes.  Every call that is made           *)
(* eventually returns a result; it visits the enabled configs once each,   *)
(* in list order, invokes evaluate at most once per config and never       *)
(* returns to a config; and it has no exit before the end of the list      *)
(* other than the validation short-circuit.                                *)
C26_OnePassCompletes == C26_Completes /\ C26_NoEarlyExit /\ C26_LinearPass

\* A call left by the exception of a supports predicate at its first
\* config, with a second config not visited.
C26_EarlyExit ==
    \E c \in Calls :
        /\ calls[c].pc = "raised"
        /\ Len(calls[c].rule_configs) = 2
        /\ calls[c].idx = 1
        /\ calls[c].rules_evaluated = 1
        /\ calls[c].rule.supports = "raise"

\* The call on the first k configs of the list of a call, and on the rest.
HeadRun(call, k) ==
    Evaluate(snapshot, SubSeq(call.rule_configs, 1, k), registry, call.ctx.evaluated_at)

TailRun(call, k) ==
    Evaluate(snapshot, SubSeq(call.rule_configs, k + 1, Len(call.rule_configs)), registry,
             call.ctx.evaluated_at)

\* The result of whole is the results of a and b put together.
Composes(whole, a, b) ==
    /\ whole.findings = a.findings \o b.findings
    /\ ErrorCodes(whole.errors) = ErrorCodes(a.errors) \o ErrorCodes(b.errors)
    /\ whole.stats.rules_evaluated = a.stats.rules_evaluated + b.stats.rules_evaluated
    /\ whole.stats.rules_failed = a.stats.rules_failed + b.stats.rules_failed

(* C27: per-config independence.  For a snapshot that passes validation    *)
(* and a list of configs cut at any place into A and B, the call on the    *)
(* list, the call on A and the call on B each return a result, and the     *)
(* result on the list has the findings on A followed by the findings on B, *)
(* the (rule id, code) errors on A followed by those on B, and the sums of *)
(* rules_evaluated and of rules_failed.                                    *)
C27_Compositional ==
    \A c \in Calls :
        (calls[c].pc \in Finished /\ snapshot.resource_type # None) =>
            \A k \in 0..Len(calls[c].rule_configs) :
                /\ calls[c].pc = "done"
                /\ HeadRun(calls[c], k).pc = "done"
                /\ TailRun(calls[c], k).pc = "done"
                /\ Composes(calls[c].result, HeadRun(calls[c], k).result, TailRun(calls[c], k).result)

\* The same for the lists on which the three calls return.
C27_ComposesOnReturn ==
    \A c \in Calls :
        calls[c].pc = "done" /\ snapshot.resource_type # None =>
            \A k \in 0..Len(calls[c].rule_configs) :
                (HeadRun(calls[c], k).pc = "done" /\ TailRun(calls[c], k).pc = "done") =>
                    Composes(calls[c].result, HeadRun(calls[c], k).result, TailRun(calls[c], k).result)

\* A returned call whose result is put together from an A with an error and
\* a B with findings.
C27_WitnessOnReturn ==
    \E c \in Calls :
        /\ calls[c].pc = "done"
        /\ Len(calls[c].rule_configs) = 2
        /\ HeadRun(calls[c], 1).pc = "done"
        /\ HeadRun(calls[c], 1).result.stats.rules_failed = 1
        /\ TailRun(calls[c], 1).pc = "done"
        /\ TailRun(calls[c], 1).result.findings # <<>>
        /\ Len(calls[c].result.errors) = 1
        /\ calls[c].result.findings = TailRun(calls[c], 1).result.findings

\* A list whose A is left by an exception: the call on the list returns
\* nothing, though the call on B returns findings.
C27_LostContribution ==
    \E c \in Calls :
        /\ calls[c].pc = "raised"
        /\ snapshot.resource_type # None
        /\ Len(calls[c].rule_configs) = 2
        /\ HeadRun(calls[c], 1).pc = "raised"
        /\ TailRun(calls[c], 1).pc = "done"
        /\ TailRun(calls[c], 1).result.findings # <<>>

-----------------------------------------------------------------------------
(* finding_factory.py: the identity of findings when the ids and keys      *)
(* contain the separator of the hashed name.  The registry holds two rules *)
(* whose (rule id, finding key) pairs differ only in the place of a "|".    *)

IdentityRules ==
    { PolicyRule("R", "HIGH", FALSE, "true", "return",
                 << FindingSpec("x|k", "separator in the finding key", None) >>, 0, NoException),
      PolicyRule("R|x", "HIGH", TRUE, "true", "return",
                 << FindingSpec("k", "separator in the rule id", None) >>, 0, NoException),
      PolicyRule("Q", "LOW", TRUE, "true", "return",
                 << FindingSpec("k", "no separator", None) >>, 0, NoException) }

IdentityConfigs == { RuleConfig(r.rule_id, TRUE, None, FALSE) : r \in IdentityRules }

IdentityRepositories == UNION { [1..n -> IdentityConfigs] : n \in 1..MaxConfigs }

InitIdentity ==
    /\ snapshot \in { Snapshot("123456789012", S3_BUCKET, "bucket-1", 1),
                      Snapshot("123456789012", S3_BUCKET, "bucket-1", NoTime) }
    /\ repository \in IdentityRepositories
    /\ registry = RegisterAll(EmptyRegistry, IdentityRules)
    /\ registrations = RegistrationOrder(IdentityRules)
    /\ last_get = NoLookup
    /\ now = 1
    /\ calls = [c \in Calls |-> IdleCall]
    /\ snapshot_of = [c \in Calls |-> snapshot]

SpecIdentity == InitIdentity /\ [][Next]_vars

\* The strings a snapshot id, a rule id or a finding key is drawn from.
IdentityParts == {"a", "b", "a|b", "b|a", "|", ""}

IdentityTriples == IdentityParts \X IdentityParts \X IdentityParts

\* The (snapshot id, rule id, finding key) a finding of a call was built from.
TripleOf(call, j) ==
    <<call.provenance[j].snapshot_id, call.provenance[j].cfg.rule_id,
      call.provenance[j].spec.finding_key>>

(* C28: the identity name is injective in the triple.  Two different       *)
(* (snapshot id, rule id, finding key) triples, with or without "|" in     *)
(* their parts, never give the same finding_id; and two findings of the    *)
(* calls built from different triples have different finding_ids.          *)
C28_InjectiveName ==
    /\ \A t1, t2 \in IdentityTriples :
          t1 # t2 => StableFindingId(t1[1], t1[2], t1[3]) # StableFindingId(t2[1], t2[2], t2[3])
    /\ \A c, d \in Calls :
          \A j \in 1..Len(calls[c].findings), k \in 1..Len(calls[d].findings) :
              TripleOf(calls[c], j) # TripleOf(calls[d], k) =>
                  calls[c].findings[j].finding_id # calls[d].findings[k].finding_id

\* A returned call with two findings of different rules and finding keys
\* under one finding_id.
C28_Collision ==
    \E c \in Calls :
        /\ calls[c].pc = "done"
        /\ Len(calls[c].result.findings) = 2
        /\ calls[c].result.findings[1].rule_id # calls[c].result.findings[2].rule_id
        /\ calls[c].result.findings[1].title # calls[c].result.findings[2].title
        /\ calls[c].result.findings[1].finding_id = calls[c].result.findings[2].finding_id

\* Without the separator in any part, different triples have different names.
C28_InjectiveWithoutSeparator ==
    \A t1, t2 \in {"a", "b", "ab", ""} \X {"a", "b", "ab", ""} \X {"a", "b", "ab", ""} :
        t1 # t2 => StableFindingId(t1[1], t1[2], t1[3]) # StableFindingId(t2[1], t2[2], t2[3])

-----------------------------------------------------------------------------
(* registry.py, engine.py: rules are registered, and registered again      *)
(* under the same id in another version, while no evaluate call is in      *)
(* progress; the calls look their rules up in the registry as it is then.  *)

\* The rules offered to register: "R_OK" in two versions, and "R_PLAIN".
VersionedRules ==
    { r \in Rules : r.rule_id \in {"R_OK", "R_PLAIN"} }
    \cup { [r EXCEPT !.rule_version = "2.0.0", !.default_severity = "LOW"] :
              r \in { x \in Rules : x.rule_id = "R_OK" } }

VersionedConfigs ==
    { RuleConfig("R_OK", TRUE, None, FALSE), RuleConfig("R_PLAIN", TRUE, None, FALSE) }

InitRegistered ==
    /\ snapshot = Snapshot("123456789012", S3_BUCKET, "bucket-1", 1)
    /\ repository \in UNION { [1..n -> VersionedConfigs] : n \in 1..MaxConfigs }
    /\ registry = EmptyRegistry
    /\ registrations = <<>>
    /\ last_get = NoLookup
    /\ now = 1
    /\ calls = [c \in Calls |-> IdleCall]
    /\ snapshot_of = [c \in Calls |-> snapshot]

\* registry.register(rule), at startup or between two evaluate calls
RegisterBetweenCalls(rule) ==
    /\ \A c \in Calls : calls[c].pc \in {"idle"} \cup Finished
    /\ RegisterRule(rule)

NextRegistered ==
    \/ \E rule \in VersionedRules : RegisterBetweenCalls(rule)
    \/ Next

SpecRegistered == InitRegistered /\ [][NextRegistered]_vars

(* C29: registry keys match rule ids.  After any sequence of register      *)
(* calls every entry of the registry is a rule whose rule_id is its key,   *)
(* so that get(id) returns a rule with rule_id = id or fails; and every    *)
(* finding a call holds or returns carries the rule_id of the config it    *)
(* was built for and the rule_version of the rule registered under that id *)
(* during the call.                                                        *)
C29_KeysMatchRuleIds ==
    /\ [](/\ \A id \in DOMAIN registry : registry[id].rule_id = id
          /\ \A id \in {"R_OK", "R_PLAIN", "R_UNREGISTERED"} :
                LET r == RegistryGet(registry, id)
                IN  IF \E k \in 1..Len(registrations) : registrations[k].rule_id = id
                    THEN r.ok /\ r.rule.rule_id = id
                    ELSE ~r.ok)
    /\ [][\A c \in Calls :
            calls'[c] # calls[c] =>
                /\ registry' = registry
                /\ \A j \in 1..Len(calls'[c].findings) :
                      /\ calls'[c].findings[j].rule_id = calls'[c].provenance[j].cfg.rule_id
                      /\ calls'[c].findings[j].rule_id \in DOMAIN registry
                      /\ calls'[c].findings[j].rule_version =
                            registry[calls'[c].findings[j].rule_id].rule_version
                /\ calls'[c].pc = "done" => calls'[c].result.findings = calls'[c].findings]_vars

\* Two returned calls with a register call between them that replaced the
\* rule of an id by another version: the findings of the first carry the
\* first version, those of the second the second, under the same rule_id.
C29_Witness ==
    /\ \A c \in Calls : calls[c].pc = "done" /\ calls[c].result.findings # <<>>
    /\ calls["c1"].result.findings[1].rule_id = calls["c2"].result.findings[1].rule_id
    /\ calls["c1"].result.findings[1].rule_id = calls["c1"].rule_configs[1].rule_id
    /\ calls["c1"].result.findings[1].rule_version # calls["c2"].result.findings[1].rule_version
    /\ calls["c2"].result.findings[1].rule_version =
          registry[calls["c2"].rule_configs[1].rule_id].rule_version

\* The rule of the config applies, its evaluate returns, and the iterable it
\* returns is consumed to its end without raising.
Succeeded(cfg) ==
    /\ Applies(cfg)
    /\ OutcomeOf(cfg).outcome = "return"
    /\ OutcomeOf(cfg).iter_fail = 0

\* (a): one error with the config's rule id and the call's snapshot id, and
\* no finding.
OutcomeError(call, i) ==
    /\ Cardinality(ErrorsOf(call, i)) = 1
    /\ \A k \in ErrorsOf(call, i) :
          /\ call.errors[k].rule_id = call.rule_configs[i].rule_id
          /\ call.errors[k].snapshot_id = snapshot.snapshot_id
    /\ FindingsOf(call, i) = {}

\* (b): the rule is unsupported, and nothing is appended.
OutcomeUnsupported(call, i) ==
    /\ Unsupported(call.rule_configs[i])
    /\ ErrorsOf(call, i) = {}
    /\ FindingsOf(call, i) = {}

\* (c): the rule succeeded; zero or more findings and no error.
OutcomeSuccess(call, i) ==
    /\ Succeeded(call.rule_configs[i])
    /\ ErrorsOf(call, i) = {}

ExactlyOneOutcome(call, i) ==
    Cardinality({ o \in {"a", "b", "c"} :
                    \/ o = "a" /\ OutcomeError(call, i)
                    \/ o = "b" /\ OutcomeUnsupported(call, i)
                    \/ o = "c" /\ OutcomeSuccess(call, i) }) = 1

\* No config has both an error and a finding, and the counters are ordered.
C30_Counters ==
    \A c \in Calls :
        /\ \A i \in 1..Len(calls[c].rule_configs) :
              ErrorsOf(calls[c], i) = {} \/ FindingsOf(calls[c], i) = {}
        /\ calls[c].rules_failed <= Len(calls[c].errors)
        /\ Len(calls[c].errors) <= calls[c].rules_evaluated

(* C30: each config has exactly one outcome.  For every config a call has  *)
(* iterated (the configs the loop has left, and the one at which a call    *)
(* ended), exactly one holds: one error with the config's rule id and the  *)
(* call's snapshot id and no finding; the rule unsupported and nothing     *)
(* appended; the rule succeeded with findings, if any, and no error.  No   *)
(* config has both an error and a finding, and in every state              *)
(* rules_failed <= len(errors) <= rules_evaluated.                         *)
C30_OneOutcomePerConfig ==
    /\ C30_Counters
    /\ \A c \in Calls :
          \A i \in 1..Len(calls[c].rule_configs) :
              (i < calls[c].idx \/ (calls[c].pc = "raised" /\ i = calls[c].idx)) =>
                  ExactlyOneOutcome(calls[c], i)

\* The same for the configs the loop has left, without the one at which an
\* exception left the call.
C30_OneOutcomeWhenLeft ==
    /\ C30_Counters
    /\ \A c \in Calls :
          \A i \in 1..Len(calls[c].rule_configs) :
              i < calls[c].idx => ExactlyOneOutcome(calls[c], i)

\* A returned call with a config of outcome (a) and a config of outcome (c).
C30_WitnessWhenLeft ==
    \E c \in Calls :
        /\ calls[c].pc = "done"
        /\ Len(calls[c].rule_configs) = 2
        /\ OutcomeError(calls[c], 1)
        /\ OutcomeSuccess(calls[c], 2)
        /\ FindingsOf(calls[c], 2) # {}
        /\ calls[c].rules_failed = 0
        /\ Len(calls[c].errors) = 1

\* A call left by the exception of the iterable its rule returned, after a
\* finding of the config was appended: no error, and the rule did not
\* succeed.
C30_NoOutcome ==
    \E c \in Calls :
        /\ calls[c].pc = "raised"
        /\ FindingsOf(calls[c], calls[c].idx) # {}
        /\ ErrorsOf(calls[c], calls[c].idx) = {}
        /\ ~Succeeded(Cfg(calls[c]))

====
